---------------------------- MODULE Spec2Model ----------------------------
(***************************************************************************)
(* DriveGuard AI: the per-modality event extractors of                     *)
(* backend/analysis (main_v2.py, enhanced_proximity_detection.py,          *)
(* enhanced_speed_detection.py) as state machines.                         *)
(*                                                                         *)
(* One behaviour follows one extractor's scan of one video: `ext' names    *)
(* the extractor, `fps' the native frame rate the container reports, and   *)
(* every frame read is one step.  What OpenCV and the detector compute     *)
(* from the pixels (box heights, expansion scores, rotation angles, flow   *)
(* scores, colour coverage, tracked boxes) is the input of a step, drawn   *)
(* from a small set; everything the Python code computes from those        *)
(* numbers is computed here the same way.                                  *)
(*                                                                         *)
(* Units.  Times that the code rounds to two decimals are integers in      *)
(* centiseconds; scores that it rounds to three decimals are integers in   *)
(* thousandths; an unrounded smoothed score is an integer number of        *)
(* 1/UNIT thousandths, UNIT chosen so that the exponential average stays   *)
(* exact for MaxFrames samples.   Arithmetic is exact: the rounding error  *)
(* of Python floats is not modelled, except where a comparison of two      *)
(* rounded times sits exactly on its threshold (see CEKeepSets).           *)
(***************************************************************************)
EXTENDS Integers, Sequences, FiniteSets, TLC

VARIABLES
  ext,    \* the extractor this scan belongs to
  fps,    \* native frame rate reported by the container (cap.get(CAP_PROP_FPS) or 30.0)
  pc,     \* "open" (handle opened, nothing read), "scan" (in the read loop), "done" (returned)
  ce,     \* run_close_encounters: locals of the scan
  tc,     \* run_turn_count: locals of the scan and of the arming loop
  lc,     \* run_lane_change_count: locals of the scan
  bl,     \* run_bus_lane_color: locals of the scan
  px,     \* EnhancedProximityDetector.detect_encounters: locals of the scan
  sp,     \* the speed / traffic-signal scans: sampler locals
  obs,    \* history: idle->active and active->idle transitions seen so far
  out,    \* the value the extractor returned (<<>> until it returns)
  call,   \* one call of an entry point: the video handle, the exit taken, what the caller got
  batch   \* main_batch_process: the videos found, the loop position, all_results

vars == <<ext, fps, pc, ce, tc, lc, bl, px, sp, obs, out, call, batch>>

----------------------------------------------------------------------------
(* Bounds of the model *)

\* frames a scan of run_close_encounters reads after the reference frame, at most
MaxFrames == 9
\* frames a scan of run_bus_lane_color reads at most
MaxBusFrames == 26
\* times the input of a bus-lane, turn or proximity scan changes from one sample to the next
MaxChanges == 1
\* frames a scan of EnhancedProximityDetector reads at most
MaxProxFrames == 12
\* sampled frames a scan of run_turn_count processes at most
MaxTurnSamples == 14
\* frames a scan of run_turn_count reads after the first at most
MaxTurnFrames == 28
\* sampled frames a scan of calculate_average_speed processes at most
MaxSpeedSamples == 6
\* samples a scan of run_lane_change_count processes at most
MaxLCSamples == 4
\* frames a long scan of run_bus_lane_color reads at most, and times its input changes
MaxBusLongFrames == 36
MaxBusLongChanges == 2

----------------------------------------------------------------------------
(* Arithmetic helpers *)

Max(a, b) == IF a >= b THEN a ELSE b
Min(a, b) == IF a <= b THEN a ELSE b
Abs(a) == IF a >= 0 THEN a ELSE -a

\* Python's round() of the non-negative rational p/q: nearest integer, ties to even
RoundHalfEven(p, q) ==
  LET f == p \div q
      r == p % q
  IN  IF 2 * r < q THEN f
      ELSE IF 2 * r > q THEN f + 1
      ELSE IF f % 2 = 0 THEN f ELSE f + 1

\* round(i / fps, 2) in centiseconds
Round2(i, f) == RoundHalfEven(100 * i, f)

RECURSIVE Pow(_, _)
Pow(b, n) == IF n = 0 THEN 1 ELSE b * Pow(b, n - 1)

Range(s) == {s[k] : k \in 1..Len(s)}

\* the k-th smallest element of a non-empty sequence of integers (np.sort(s)[k-1])
KthSmallest(s, k) ==
  CHOOSE v \in Range(s) :
    /\ Cardinality({j \in 1..Len(s) : s[j] < v}) < k
    /\ Cardinality({j \in 1..Len(s) : s[j] <= v}) >= k

\* np.median of a non-empty sequence whose even-length middle pairs have an even sum
Median(s) ==
  LET n == Len(s)
  IN  IF n % 2 = 1 THEN KthSmallest(s, (n + 1) \div 2)
      ELSE (KthSmallest(s, n \div 2) + KthSmallest(s, n \div 2 + 1)) \div 2

\* the last n elements of s (a deque(maxlen=n) after appending the elements of s)
LastN(s, n) == IF Len(s) <= n THEN s ELSE SubSeq(s, Len(s) - n + 1, Len(s))

----------------------------------------------------------------------------
(* Frame sampler *)

\* native frame rates the model reads from the container
FpsSet == {1, 20, 60}

\* native frame rates for the scans that only sample: two more that no sampling
\* rate divides
FpsSetAll == FpsSet \cup {9, 29}

\* step = max(1, int(round(fps / hz)))
StepRound(f, hz) == Max(1, RoundHalfEven(f, hz))

----------------------------------------------------------------------------
(* run_close_encounters *)

PROC_HZ_CE == 8
EMA_A_DEN == 4          \* EMA_A = 0.25 = 1 / EMA_A_DEN
BASE_LEN == 12          \* max(3, int(BASE_SEC * PROC_HZ_CE))
ENTER_K == 180          \* thousandths
EXIT_K == 100           \* thousandths
DERIV_MIN == 40         \* thousandths
MIN_BOX_H == 140        \* thousandths
MERGE_GAP == 200        \* centiseconds
CE_MIN_DUR == 20        \* centiseconds: the 0.2 of the duration filter

\* units of smoothed score per thousandth
UNIT == 2 * Pow(EMA_A_DEN, MaxFrames - 1)

Bands == 1..3
WHERE == <<"left", "center", "right">>

\* What the detector and the flow tracker report for one sampled frame: per band
\* the tallest overlapping box (hmax, thousandths of the band height) and the
\* median radial expansion (exp, thousandths).
CEQuiet == [hmax |-> <<0, 0, 0>>, exp |-> <<0, 0, 0>>]
CEInputs ==
  { CEQuiet,
    [hmax |-> <<0, 720, 0>>, exp |-> <<0, 0, 0>>],         \* a box in the centre band
    [hmax |-> <<0, 0, 0>>, exp |-> <<0, 0, 800>>] }        \* expansion on the right, no box

\* A second set of frames, for scans whose smoothed score falls by less than a
\* thousandth from one sample to the next: a box of 0.801 and one of 0.200 of the
\* band height in the centre band.
CEPeakInputs ==
  { CEQuiet,
    [hmax |-> <<0, 801, 0>>, exp |-> <<0, 0, 0>>],
    [hmax |-> <<0, 200, 0>>, exp |-> <<0, 0, 0>>] }

\* the scans of run_close_encounters in the model and the frames each draws from
CEScans == {"ce", "ce_peak"}
CEInputsOf(e) == IF e = "ce_peak" THEN CEPeakInputs ELSE CEInputs

CEStep == StepRound(fps, PROC_HZ_CE)

ce0 ==
  [ i |-> 0,
    vals |-> <<<<>>, <<>>, <<>>>>,
    bases |-> <<<<>>, <<>>, <<>>>>,
    ema |-> <<0, 0, 0>>,
    times |-> <<>>,
    state |-> "idle",
    cur_event |-> <<>>,
    events |-> <<>> ]

\* np.argmax: the first index holding the maximum
ArgMax3(v) == CHOOSE b \in Bands : /\ \A c \in Bands : v[c] <= v[b]
                                   /\ \A c \in Bands : c < b => v[c] < v[b]

Max3(v) == Max(v[1], Max(v[2], v[3]))

\* ema[bi] = score if not vals[bi] else EMA_A*score + (1-EMA_A)*ema[bi]
EmaNext(c, inp) ==
  [b \in Bands |->
     LET score == (Max(inp.hmax[b], 0) + Max(inp.exp[b], 0)) * UNIT
     IN  IF c.vals[b] = <<>> THEN score
         ELSE c.ema[b] + (score - c.ema[b]) \div EMA_A_DEN]

\* cur_event["end_time"] = t: the open event gets its end
WithEnd(e, t) ==
  [ start_time |-> e.start_time, peak_time |-> e.peak_time, peak_score |-> e.peak_score,
    where |-> e.where, max_box_height_norm |-> e.max_box_height_norm, end_time |-> t ]

\* CEPeakUpdate without the new peak_time
CEPeakUpdateKeepsTime(cur, fused, peak_band, hbox, t) ==
  IF fused > cur.peak_score * UNIT
  THEN [cur EXCEPT !.peak_score = RoundHalfEven(fused, UNIT),
                   !.where = WHERE[peak_band],
                   !.max_box_height_norm = hbox]
  ELSE cur

\* `if fused > cur_event["peak_score"]': a new peak replaces the peak attributes
CEPeakUpdate(cur, fused, peak_band, hbox, t) ==
  IF fused > cur.peak_score * UNIT
  THEN [cur EXCEPT !.peak_score = RoundHalfEven(fused, UNIT),
                   !.peak_time = t,
                   !.where = WHERE[peak_band],
                   !.max_box_height_norm = hbox]
  ELSE cur

\* CEExit without the return to idle: the event is listed but stays open
CEExitStaysActive(cur, events, t) == << "in_event", <<cur>>, Append(events, WithEnd(cur, t)) >>

\* `if fused <= exit_thr': the event gets its end, joins the list, and the machine
\* is idle again; the result is <<state, cur_event, events>>
CEExit(cur, events, t) == << "idle", <<>>, Append(events, WithEnd(cur, t)) >>

\* The idle / in_event machine of one sample: returns <<state, cur_event, events>>.
\* fused, d1 and the thresholds are in score units, hbox in thousandths, t in
\* centiseconds (already rounded).
CEMachine(state, cur_event, events, fused, d1, box_ok, peak_band, hbox, enter_thr, exit_thr, t) ==
  IF state = "idle"
  THEN IF fused >= enter_thr /\ d1 >= DERIV_MIN * UNIT /\ box_ok
       THEN << "in_event",
               << [ start_time |-> t, peak_time |-> t,
                    peak_score |-> RoundHalfEven(fused, UNIT),
                    where |-> WHERE[peak_band],
                    max_box_height_norm |-> hbox ] >>,
               events >>
       ELSE << state, cur_event, events >>
  ELSE LET upd == CEPeakUpdate(cur_event[1], fused, peak_band, hbox, t)
       IN  IF fused <= exit_thr
           THEN CEExit(upd, events, t)
           ELSE << state, <<upd>>, events >>

\* One sampled frame of the scan (the body of the loop after `if i % step != 0')
CESample(c, i, inp) ==
  LET t == Round2(i, fps)
      ema == EmaNext(c, inp)
      vals == [b \in Bands |-> Append(c.vals[b], ema[b])]
      bases == [b \in Bands |-> LastN(Append(c.bases[b], ema[b]), BASE_LEN)]
      times == Append(c.times, i)
      medians == [b \in Bands |-> IF Len(bases[b]) >= 3 THEN Median(bases[b]) ELSE 0]
      fused == Max3(ema)
      fused_prev == IF Len(times) < 2 THEN fused
                    ELSE Max3([b \in Bands |-> vals[b][Len(vals[b]) - 1]])
      d1 == fused - fused_prev
      peak_band == ArgMax3(ema)
      box_ok == 10 * inp.hmax[peak_band] >= 9 * MIN_BOX_H
      enter_thr == Median(medians) + ENTER_K * UNIT
      exit_thr == Median(medians) + EXIT_K * UNIT
      m == CEMachine(c.state, c.cur_event, c.events, fused, d1, box_ok, peak_band,
                     inp.hmax[peak_band], enter_thr, exit_thr, t)
  IN  [ i |-> i, vals |-> vals, bases |-> bases, ema |-> ema, times |-> times,
        state |-> m[1], cur_event |-> m[2], events |-> m[3] ]

\* after the loop: an event still open is closed at the last sample time t_last
CEForceCloseAt(state, cur_event, events, t_last) ==
  IF state = "in_event" /\ cur_event # <<>>
  THEN Append(events, WithEnd(cur_event[1], t_last))
  ELSE events

CEForceClose(c) ==
  CEForceCloseAt(c.state, c.cur_event, c.events,
                 IF c.times = <<>> THEN 0 ELSE Round2(c.times[Len(c.times)], fps))

SelectIdx(s, K) ==
  LET F[k \in 0..Len(s)] ==
        IF k = 0 THEN <<>>
        ELSE IF k \in K THEN Append(F[k - 1], s[k]) ELSE F[k - 1]
  IN  F[Len(s)]

\* The duration filter `(e["end_time"] - e["start_time"]) >= 0.2' subtracts two
\* floats that were rounded to two decimals.  A difference of exactly 0.20 comes
\* out as 0.2 for some pairs (0.4 - 0.2) and just below it for others (0.3 - 0.1),
\* so an event of exactly that length may be kept or dropped: every set of such
\* events is a possible outcome.  Longer events are kept, shorter ones dropped.
CEKeepSets(events) ==
  LET dur(k) == events[k].end_time - events[k].start_time
      sure == {k \in 1..Len(events) : dur(k) > CE_MIN_DUR}
      edge == {k \in 1..Len(events) : dur(k) = CE_MIN_DUR}
  IN  {sure \cup E : E \in SUBSET edge}

\* MergeOne without `last["end_time"] = e["end_time"]'
MergeOneKeepsEnd(merged, e) ==
  IF merged = <<>> THEN <<e>>
  ELSE LET n == Len(merged)
           last == merged[n]
       IN  IF e.start_time - last.end_time <= MERGE_GAP
           THEN IF e.peak_score > last.peak_score
                THEN [merged EXCEPT ![n] = [last EXCEPT !.peak_score = e.peak_score,
                                                        !.peak_time = e.peak_time,
                                                        !.where = e.where,
                                                        !.max_box_height_norm =
                                                          e.max_box_height_norm]]
                ELSE merged
           ELSE Append(merged, e)

\* one step of the merge loop: e against the list merged so far
MergeOne(merged, e) ==
  IF merged = <<>> THEN <<e>>
  ELSE LET n == Len(merged)
           last == merged[n]
       IN  IF e.start_time - last.end_time <= MERGE_GAP
           THEN LET pk == IF e.peak_score > last.peak_score
                          THEN [last EXCEPT !.peak_score = e.peak_score,
                                            !.peak_time = e.peak_time,
                                            !.where = e.where,
                                            !.max_box_height_norm = e.max_box_height_norm]
                          ELSE last
                IN  [merged EXCEPT ![n] = [pk EXCEPT !.end_time = e.end_time]]
           ELSE Append(merged, e)

\* the kept events returned as they are, without the merge pass
MergeEventsSkipped(final) == final

\* the merge pass over the kept events
MergeEvents(final) ==
  LET F[k \in 0..Len(final)] ==
        IF k = 0 THEN <<>> ELSE MergeOne(F[k - 1], final[k])
  IN  F[Len(final)]

CEOthers == <<ext, fps, call, batch, tc, lc, bl, px, sp>>

\* the history of transitions: an opening is idle -> active, a closing is an event
\* emitted or active -> idle
Observe(o, wasActive, isActive, emitted) ==
  IF emitted \/ (wasActive /\ ~isActive)
  THEN [opened |-> o.opened, closed |-> o.closed + 1, last |-> "close",
        doubleClose |-> o.doubleClose \/ o.last # "open",
        idleEmit |-> o.idleEmit \/ (emitted /\ ~wasActive)]
  ELSE IF ~wasActive /\ isActive
  THEN [o EXCEPT !.opened = o.opened + 1, !.last = "open"]
  ELSE o

obs0 == [opened |-> 0, closed |-> 0, last |-> "none", doubleClose |-> FALSE, idleEmit |-> FALSE]

\* ok, f0 = cap.read() fails: the empty result
CEEmptyStream ==
  /\ ext \in CEScans /\ pc = "open"
  /\ pc' = "done"
  /\ out' = <<[close_encounters |-> <<>>, event_count |-> 0]>>
  /\ UNCHANGED <<ce, obs>>
  /\ UNCHANGED CEOthers

\* the first frame is read and becomes the reference frame of the flow
CEFirstFrame ==
  /\ ext \in CEScans /\ pc = "open"
  /\ pc' = "scan"
  /\ UNCHANGED <<ce, obs, out>>
  /\ UNCHANGED CEOthers

\* one iteration of the read loop: frame i is read; it is skipped unless i % step = 0
CEFrame ==
  /\ ext \in CEScans /\ pc = "scan"
  /\ ce.i < MaxFrames
  /\ LET i == ce.i + 1
     IN  IF i % CEStep # 0
         THEN /\ ce' = [ce EXCEPT !.i = i]
              /\ UNCHANGED obs
         ELSE \E inp \in CEInputsOf(ext) :
                /\ ce' = CESample(ce, i, inp)
                /\ obs' = Observe(obs, ce.state = "in_event", ce'.state = "in_event",
                                  Len(ce'.events) > Len(ce.events))
  /\ UNCHANGED <<pc, out>>
  /\ UNCHANGED CEOthers

\* cap.read() reports the end of the stream: close, filter, merge, return.
\* `final' records the kept events as they are before the merge pass (which
\* extends the first event of a run in place); the code returns only the merged
\* list and its length.
CEFinish ==
  /\ ext \in CEScans /\ pc = "scan"
  /\ LET events == CEForceClose(ce)
     IN  /\ ce' = [ce EXCEPT !.events = events]
         /\ obs' = Observe(obs, ce.state = "in_event", ce.state = "in_event",
                           Len(events) > Len(ce.events))
         /\ \E K \in CEKeepSets(events) :
              LET final == SelectIdx(events, K)
                  merged == MergeEvents(final)
              IN  out' = <<[close_encounters |-> merged, event_count |-> Len(merged),
                            final |-> final]>>
  /\ pc' = "done"
  /\ UNCHANGED CEOthers

InitCE ==
  /\ ext = "ce"
  /\ fps \in FpsSet
  /\ pc = "open"
  /\ ce = ce0
  /\ tc = <<>> /\ lc = <<>> /\ bl = <<>> /\ px = <<>> /\ sp = <<>>
  /\ obs = obs0
  /\ out = <<>>
  /\ call = <<>> /\ batch = <<>>

NextCE == CEEmptyStream \/ CEFirstFrame \/ CEFrame \/ CEFinish

SpecCE == InitCE /\ [][NextCE]_vars

\* the same scan over the second set of frames, at one frame per second
InitCEPeak ==
  /\ ext = "ce_peak"
  /\ fps = 1
  /\ pc = "open"
  /\ ce = ce0
  /\ tc = <<>> /\ lc = <<>> /\ bl = <<>> /\ px = <<>> /\ sp = <<>>
  /\ obs = obs0
  /\ out = <<>>
  /\ call = <<>> /\ batch = <<>>

SpecCEPeak == InitCEPeak /\ [][NextCE]_vars

----------------------------------------------------------------------------
(* The idle / in_event machine of run_close_encounters on its own: the fused
   scores are fed to it directly, one per second from time 0, against a flat
   baseline (all band medians 0), and the end of the stream closes, filters and
   merges as the extractor does. *)

\* samples fed to the machine at most
MaxFed == 5

\* fused scores in thousandths
FusedInputs == {50, 80, 200, 250}

cm0 ==
  [ fed |-> <<>>, gate |-> <<>>, state |-> "idle", cur_event |-> <<>>, events |-> <<>> ]

\* the band and the box height the detector reports with every sample
CMBox == [peak_band |-> 2, hbox |-> 720]

\* one sample: fused = fuseds[-1], d1 = fused - fuseds[-2] (0 on the first sample),
\* thresholds median + ENTER_K and median + EXIT_K with median 0
CMSample(c, fused, box_ok) ==
  LET k == Len(c.fed)
      t == 100 * k
      fused_prev == IF k = 0 THEN fused ELSE c.fed[k]
      m == CEMachine(c.state, c.cur_event, c.events, fused * UNIT,
                     (fused - fused_prev) * UNIT, box_ok, CMBox.peak_band, CMBox.hbox,
                     ENTER_K * UNIT, EXIT_K * UNIT, t)
  IN  [ fed |-> Append(c.fed, fused), gate |-> Append(c.gate, box_ok),
        state |-> m[1], cur_event |-> m[2], events |-> m[3] ]

CMFeed ==
  /\ ext = "ce_machine" /\ pc = "scan"
  /\ Len(ce.fed) < MaxFed
  /\ \E fused \in FusedInputs, box_ok \in BOOLEAN :
       /\ ce' = CMSample(ce, fused, box_ok)
       /\ obs' = Observe(obs, ce.state = "in_event", ce'.state = "in_event",
                         Len(ce'.events) > Len(ce.events))
  /\ UNCHANGED <<pc, out>>
  /\ UNCHANGED CEOthers

CMFinish ==
  /\ ext = "ce_machine" /\ pc = "scan"
  /\ LET events == CEForceCloseAt(ce.state, ce.cur_event, ce.events,
                                  100 * (Len(ce.fed) - 1))
     IN  /\ ce' = [ce EXCEPT !.events = events]
         /\ obs' = Observe(obs, ce.state = "in_event", ce.state = "in_event",
                           Len(events) > Len(ce.events))
         /\ \E K \in CEKeepSets(events) :
              LET final == SelectIdx(events, K)
                  merged == MergeEvents(final)
              IN  out' = <<[close_encounters |-> merged, event_count |-> Len(merged),
                            final |-> final]>>
  /\ pc' = "done"
  /\ UNCHANGED CEOthers

InitCM ==
  /\ ext = "ce_machine"
  /\ fps = 1
  /\ pc = "scan"
  /\ ce = cm0
  /\ tc = <<>> /\ lc = <<>> /\ bl = <<>> /\ px = <<>> /\ sp = <<>>
  /\ obs = obs0
  /\ out = <<>>
  /\ call = <<>> /\ batch = <<>>

NextCM == CMFeed \/ CMFinish

SpecCM == InitCM /\ [][NextCM]_vars

----------------------------------------------------------------------------
(* run_bus_lane_color *)

MIN_RED_COVERAGE == 12       \* hundredths of the ROI
BUFFER_SIZE_FRAMES == 12
MIN_DURATION_SEC == 1

\* red coverage of the ROI in one frame, hundredths
BusInputs == {5, 30}

\* the scans of run_bus_lane_color in the model: "bus_long" reads enough frames
\* for a second window
BusScans == {"bus", "bus_long"}
BusFramesOf(e) == IF e = "bus_long" THEN MaxBusLongFrames ELSE MaxBusFrames
BusChangesOf(e) == IF e = "bus_long" THEN MaxBusLongChanges ELSE MaxChanges

bl0 ==
  [ frame_idx |-> 0,
    buffer |-> <<>>,
    violation_active |-> FALSE,
    ranges |-> <<>>,          \* start_time / end_time as frame indexes; end_time <<>> until set
    last |-> 0, chg |-> 0 ]   \* input bookkeeping: previous coverage, changes so far

\* any(buffer) where all(buffer) is meant
AllTrueAsAny(buf) == \E k \in 1..Len(buf) : buf[k]

AllTrue(buf) == \A k \in 1..Len(buf) : buf[k]

\* all(buffer) where any(buffer) is meant
AnyTrueAsAll(buf) == \A k \in 1..Len(buf) : buf[k]

AnyTrue(buf) == \E k \in 1..Len(buf) : buf[k]

\* the body of the read loop for one frame with the given red coverage
BusStep(b, red_coverage) ==
  LET frame_idx == b.frame_idx + 1
      on_bus_lane == red_coverage >= MIN_RED_COVERAGE
      buffer == LastN(Append(b.buffer, on_bus_lane), BUFFER_SIZE_FRAMES)
      opens == ~b.violation_active /\ Len(buffer) = BUFFER_SIZE_FRAMES /\ AllTrue(buffer)
      ranges1 == IF opens
                 THEN Append(b.ranges, [start_time |-> frame_idx, end_time |-> <<>>])
                 ELSE b.ranges
      active1 == b.violation_active \/ opens
      closes == active1 /\ Len(buffer) = BUFFER_SIZE_FRAMES /\ ~AnyTrue(buffer)
      n == Len(ranges1)
      ranges2 == IF closes /\ ranges1[n].end_time = <<>>
                 THEN [ranges1 EXCEPT ![n].end_time = <<frame_idx>>]
                 ELSE ranges1
  IN  [ frame_idx |-> frame_idx, buffer |-> buffer,
        violation_active |-> active1 /\ ~closes, ranges |-> ranges2,
        last |-> red_coverage,
        chg |-> IF b.frame_idx > 0 /\ red_coverage # b.last THEN b.chg + 1 ELSE b.chg ]

\* after the loop: a window still open ends at the last frame read
BusForceClose(b) ==
  LET n == Len(b.ranges)
  IN  IF b.violation_active /\ n > 0 /\ b.ranges[n].end_time = <<>>
      THEN [b.ranges EXCEPT ![n].end_time = <<b.frame_idx>>]
      ELSE b.ranges

\* ranges of at least MIN_DURATION_SEC, rounded to two decimals (centiseconds)
BusFinal(ranges, f) ==
  LET keep == {k \in 1..Len(ranges) :
                 /\ ranges[k].end_time # <<>>
                 /\ ranges[k].end_time[1] - ranges[k].start_time >= MIN_DURATION_SEC * f}
      kept == SelectIdx(ranges, keep)
  IN  [k \in 1..Len(kept) |->
         [start_time |-> Round2(kept[k].start_time, f),
          end_time |-> Round2(kept[k].end_time[1], f)]]

NumEnded(ranges) == Cardinality({k \in 1..Len(ranges) : ranges[k].end_time # <<>>})

BusOthers == <<ext, fps, call, batch, ce, tc, lc, px, sp>>

BusFrame ==
  /\ ext \in BusScans /\ pc = "scan"
  /\ bl.frame_idx < BusFramesOf(ext)
  /\ \E cov \in BusInputs :
       /\ (bl.frame_idx > 0 /\ cov # bl.last) => bl.chg < BusChangesOf(ext)
       /\ bl' = BusStep(bl, cov)
  /\ obs' = Observe(obs, bl.violation_active, bl'.violation_active,
                    NumEnded(bl'.ranges) > NumEnded(bl.ranges))
  /\ UNCHANGED <<pc, out>>
  /\ UNCHANGED BusOthers

BusFinish ==
  /\ ext \in BusScans /\ pc = "scan"
  /\ LET ranges == BusForceClose(bl)
         final == BusFinal(ranges, fps)
     IN  /\ bl' = [bl EXCEPT !.ranges = ranges]
         /\ obs' = Observe(obs, bl.violation_active, bl.violation_active,
                           NumEnded(ranges) > NumEnded(bl.ranges))
         /\ out' = <<[violation_detected |-> final # <<>>, violation_ranges |-> final]>>
  /\ pc' = "done"
  /\ UNCHANGED BusOthers

InitBus ==
  /\ ext = "bus"
  /\ fps \in FpsSet
  /\ pc = "scan"
  /\ bl = bl0
  /\ ce = <<>> /\ tc = <<>> /\ lc = <<>> /\ px = <<>> /\ sp = <<>>
  /\ obs = obs0
  /\ out = <<>>
  /\ call = <<>> /\ batch = <<>>

NextBus == BusFrame \/ BusFinish

SpecBus == InitBus /\ [][NextBus]_vars

\* a long scan at 20 frames per second
InitBusLong ==
  /\ ext = "bus_long"
  /\ fps = 20
  /\ pc = "scan"
  /\ bl = bl0
  /\ ce = <<>> /\ tc = <<>> /\ lc = <<>> /\ px = <<>> /\ sp = <<>>
  /\ obs = obs0
  /\ out = <<>>
  /\ call = <<>> /\ batch = <<>>

SpecBusLong == InitBusLong /\ [][NextBus]_vars

----------------------------------------------------------------------------
(* run_lane_change_count *)

PROCESS_HZ_LC == 8
EMA_ALPHA_NUM == 3           \* EMA_ALPHA_LC = 0.12 = EMA_ALPHA_NUM / EMA_ALPHA_DEN
EMA_ALPHA_DEN == 25
ENTER_THR_LC == 5            \* tenths
EXIT_THR_LC == 3             \* tenths
MIN_TURN_SEC_LC == 1

\* units of smoothed lane-change score per tenth
UNIT_LC == Pow(EMA_ALPHA_DEN, MaxLCSamples)

\* What the dense flow of one sampled frame reduces to: whether any pixel moves
\* faster than MAG_THRESH_LC, the share of such pixels (percent of the ROI), and
\* their mean horizontal and absolute mean vertical flow (tenths of a pixel).
LCInputs ==
  { [any |-> FALSE, coverage |-> 0, mean_horizontal |-> 0, mean_vertical |-> 0],
    [any |-> TRUE, coverage |-> 5, mean_horizontal |-> 50, mean_vertical |-> 10],
    [any |-> TRUE, coverage |-> 40, mean_horizontal |-> 11, mean_vertical |-> 10],
    [any |-> TRUE, coverage |-> 40, mean_horizontal |-> 7, mean_vertical |-> 1],
    [any |-> TRUE, coverage |-> 40, mean_horizontal |-> 50, mean_vertical |-> 10],
    [any |-> TRUE, coverage |-> 40, mean_horizontal |-> -50, mean_vertical |-> 10],
    [any |-> TRUE, coverage |-> 40, mean_horizontal |-> -19, mean_vertical |-> 10] }

\* LCRawScore without the coverage gate
LCRawScoreNoCoverage(inp) ==
  IF inp.any
  THEN IF /\ 10 * Abs(inp.mean_horizontal) > 12 * inp.mean_vertical
          /\ Abs(inp.mean_horizontal) > 8
       THEN (10 * inp.mean_horizontal) \div inp.mean_vertical
       ELSE 0
  ELSE 0

\* the gated raw score, tenths (mean_horizontal / mean_vertical; the 1e-6 added
\* to the divisor is below the resolution of the model)
LCRawScore(inp) ==
  IF inp.any
  THEN IF /\ inp.coverage > 10
          /\ 10 * Abs(inp.mean_horizontal) > 12 * inp.mean_vertical
          /\ Abs(inp.mean_horizontal) > 8
       THEN (10 * inp.mean_horizontal) \div inp.mean_vertical
       ELSE 0
  ELSE 0

LCStep == StepRound(fps, PROCESS_HZ_LC)

lc0 ==
  [ frame_idx |-> 0, samples |-> 0, ema |-> 0, turning |-> FALSE, turn_dir |-> 0,
    right_count |-> 0, left_count |-> 0, frames_in_turn |-> 0 ]

\* LCLongEnough without the minimum duration
LCLongEnoughAlways(frames_in_turn) == TRUE

\* dur_sec >= MIN_TURN_SEC_LC, dur_sec = frames_in_turn / (fps / step)
LCLongEnough(frames_in_turn) == frames_in_turn * LCStep >= MIN_TURN_SEC_LC * fps

\* the episode that just ended is counted in its direction if it lasted long enough
LCCount(l) ==
  IF LCLongEnough(l.frames_in_turn)
  THEN IF l.turn_dir > 0 THEN [l EXCEPT !.right_count = l.right_count + 1]
                        ELSE [l EXCEPT !.left_count = l.left_count + 1]
  ELSE l

\* one sampled frame
LCSample(l, inp) ==
  LET score == LCRawScore(inp) * UNIT_LC
      ema == l.ema - EMA_ALPHA_NUM * (l.ema \div EMA_ALPHA_DEN)
                   + EMA_ALPHA_NUM * (score \div EMA_ALPHA_DEN)
      abs_ema == Abs(ema)
      dir_now == IF ema >= 0 THEN 1 ELSE -1
      l1 == [l EXCEPT !.ema = ema, !.samples = l.samples + 1]
  IN  IF ~l.turning
      THEN IF abs_ema >= ENTER_THR_LC * UNIT_LC
           THEN [l1 EXCEPT !.turning = TRUE, !.turn_dir = dir_now, !.frames_in_turn = 1]
           ELSE l1
      ELSE IF abs_ema >= EXIT_THR_LC * UNIT_LC /\ dir_now = l.turn_dir
           THEN [l1 EXCEPT !.frames_in_turn = l.frames_in_turn + 1]
           ELSE [LCCount(l1) EXCEPT !.turning = FALSE, !.turn_dir = 0, !.frames_in_turn = 0]

LCResult(l) ==
  [turn_count |-> l.left_count + l.right_count, left |-> l.left_count, right |-> l.right_count]

LCOthers == <<ext, fps, call, batch, ce, tc, bl, px, sp>>

LCEmptyStream ==
  /\ ext = "lc" /\ pc = "open"
  /\ pc' = "done"
  /\ out' = <<[turn_count |-> 0, left |-> 0, right |-> 0]>>
  /\ UNCHANGED <<lc, obs>>
  /\ UNCHANGED LCOthers

LCFirstFrame ==
  /\ ext = "lc" /\ pc = "open"
  /\ pc' = "scan"
  /\ UNCHANGED <<lc, obs, out>>
  /\ UNCHANGED LCOthers

LCFrame ==
  /\ ext = "lc" /\ pc = "scan"
  /\ lc.samples < MaxLCSamples
  /\ LET frame_idx == lc.frame_idx + 1
     IN  IF frame_idx % LCStep # 0
         THEN /\ lc' = [lc EXCEPT !.frame_idx = frame_idx]
              /\ UNCHANGED obs
         ELSE \E inp \in LCInputs :
                /\ lc' = [LCSample(lc, inp) EXCEPT !.frame_idx = frame_idx]
                /\ obs' = Observe(obs, lc.turning, lc'.turning,
                                  lc'.left_count + lc'.right_count
                                    > lc.left_count + lc.right_count)
  /\ UNCHANGED <<pc, out>>
  /\ UNCHANGED LCOthers

\* end of the stream: an episode still open is counted if it lasted long enough
LCFinish ==
  /\ ext = "lc" /\ pc = "scan"
  /\ lc' = IF lc.turning THEN LCCount(lc) ELSE lc
  /\ obs' = Observe(obs, lc.turning, lc.turning, lc.turning)
  /\ out' = <<LCResult(lc')>>
  /\ pc' = "done"
  /\ UNCHANGED LCOthers

InitLC ==
  /\ ext = "lc"
  /\ fps \in FpsSet
  /\ pc = "open"
  /\ lc = lc0
  /\ ce = <<>> /\ tc = <<>> /\ bl = <<>> /\ px = <<>> /\ sp = <<>>
  /\ obs = obs0
  /\ out = <<>>
  /\ call = <<>> /\ batch = <<>>

NextLC == LCEmptyStream \/ LCFirstFrame \/ LCFrame \/ LCFinish

SpecLC == InitLC /\ [][NextLC]_vars

----------------------------------------------------------------------------
(* run_turn_count *)

PROCESS_HZ_TURN == 10
ANGLE_THRESH_DEG == 25
OMEGA_THRESH_DPS == 8
SMOOTH_WIN == 5
ARM_FRAMES == 6
RELEASE_FRAMES == 6
MIN_TURN_SEC_TENTHS == 7     \* MIN_TURN_SEC = 0.7

\* What feature matching yields for one sampled frame: the rotation of the fitted
\* transform in tenths of a degree, <<a>>, or <<>> when the frame gives no sample
\* (too few keypoints or matches, or no transform fitted).
TurnInputs == {<<>>, <<0>>, <<10>>, <<-10>>, <<100>>}

\* A second set of rotations, for scans whose yaw rate sits exactly on
\* OMEGA_THRESH_DPS: 0.8 degrees per sample at ten samples per second.
TurnEdgeInputs == {<<>>, <<0>>, <<8>>, <<-8>>}

\* the scans of run_turn_count in the model and the rotations each draws from
TurnScans == {"turn", "turn_edge"}
TurnInputsOf(e) == IF e = "turn_edge" THEN TurnEdgeInputs ELSE TurnInputs

TurnStep == StepRound(fps, PROCESS_HZ_TURN)

tc0 ==
  [ frame_idx |-> 0, sampled |-> 0, angles_deg |-> <<>>, times |-> <<>>, t_idx |-> 0,
    last |-> <<>>, chg |-> 0,
    m |-> <<>> ]              \* the arming machine after its loop (<<>> before)

\* one sampled frame: a fitted rotation appends a sample, anything else does not
TurnSample(t, inp) ==
  LET t1 == [t EXCEPT !.sampled = t.sampled + 1, !.last = inp,
                      !.chg = IF t.sampled > 0 /\ inp # t.last THEN t.chg + 1 ELSE t.chg]
  IN  IF inp = <<>> THEN t1
      ELSE [t1 EXCEPT !.angles_deg = Append(t.angles_deg, inp[1]),
                      !.t_idx = t.t_idx + TurnStep,
                      !.times = Append(t.times, t.t_idx + TurnStep)]

\* _median_filter(x, k): the median over the window of radius k // 2, cut at the ends
MedianFilter(x, k) ==
  IF k <= 1 THEN x
  ELSE LET r == k \div 2
           F[i \in 0..Len(x)] ==
             IF i = 0 THEN <<>>
             ELSE Append(F[i - 1], Median(SubSeq(x, Max(1, i - r), Min(Len(x), i + r))))
       IN  F[Len(x)]

\* np.cumsum
CumSum(x) ==
  LET F[i \in 0..Len(x)] ==
        IF i = 0 THEN <<>>
        ELSE LET prev == F[i - 1]
             IN  Append(prev, (IF i = 1 THEN 0 ELSE prev[i - 1]) + x[i])
  IN  F[Len(x)]

\* abs(w) >= OMEGA_THRESH_DPS for the smoothed rotation a (tenths of a degree per
\* sample): w = a / 10 * eff_hz, eff_hz = fps / step
TurningNow(a) == Abs(a) * fps >= OMEGA_THRESH_DPS * 10 * TurnStep

tm0 ==
  [ state |-> "idle", arm |-> <<>>, rel |-> <<>>, start_i |-> <<>>, start_heading |-> <<>>,
    direction |-> <<>>, events |-> <<>>, obs |-> obs0 ]

\* TurnMachine without the release window: a turn is committed by its angle only
TurnMachineAngleOnly(m, i, a, heading, times) ==
  LET w == a[i]
      turning_now == TurningNow(w)
      arm == LastN(Append(m.arm, turning_now), ARM_FRAMES)
  IN  IF m.state = "idle"
      THEN IF Len(arm) = ARM_FRAMES /\ AllTrue(arm)
           THEN [m EXCEPT !.arm = arm,
                          !.direction = << IF Median(SubSeq(a, i - ARM_FRAMES + 1, i)) >= 0
                                           THEN "right" ELSE "left" >>,
                          !.start_i = << i - ARM_FRAMES + 1 >>,
                          !.start_heading = << heading[i - ARM_FRAMES + 1] >>,
                          !.state = "turning",
                          !.rel = <<>>,
                          !.obs = Observe(m.obs, FALSE, TRUE, FALSE)]
           ELSE [m EXCEPT !.arm = arm]
      ELSE LET delta == (heading[i] - m.start_heading[1])
                          * (IF m.direction[1] = "right" THEN 1 ELSE -1)
               long_enough == 10 * (times[i] - times[m.start_i[1]]) >= MIN_TURN_SEC_TENTHS * fps
           IN  IF delta >= ANGLE_THRESH_DEG * 10 /\ long_enough
               THEN [m EXCEPT !.events = Append(m.events, m.direction[1]),
                              !.state = "idle", !.arm = <<>>, !.rel = <<>>,
                              !.start_i = <<>>, !.start_heading = <<>>, !.direction = <<>>,
                              !.obs = Observe(m.obs, TRUE, FALSE, TRUE)]
               ELSE [m EXCEPT !.arm = arm]

\* iteration i (1-based) of the arming loop over the smoothed rotations a, the
\* heading (tenths of a degree) and the sample times (frames)
TurnMachine(m, i, a, heading, times) ==
  LET w == a[i]
      turning_now == TurningNow(w)
      arm == LastN(Append(m.arm, turning_now), ARM_FRAMES)
  IN  IF m.state = "idle"
      THEN IF Len(arm) = ARM_FRAMES /\ AllTrue(arm)
           THEN [m EXCEPT !.arm = arm,
                          !.direction = << IF Median(SubSeq(a, i - ARM_FRAMES + 1, i)) >= 0
                                           THEN "right" ELSE "left" >>,
                          !.start_i = << i - ARM_FRAMES + 1 >>,
                          !.start_heading = << heading[i - ARM_FRAMES + 1] >>,
                          !.state = "turning",
                          !.rel = <<>>,
                          !.obs = Observe(m.obs, FALSE, TRUE, FALSE)]
           ELSE [m EXCEPT !.arm = arm]
      ELSE LET same_dir == m.direction[1] = (IF w >= 0 THEN "right" ELSE "left")
               rel == LastN(Append(m.rel, ~turning_now \/ ~same_dir), RELEASE_FRAMES)
               delta == (heading[i] - m.start_heading[1])
                          * (IF m.direction[1] = "right" THEN 1 ELSE -1)
               long_enough == 10 * (times[i] - times[m.start_i[1]]) >= MIN_TURN_SEC_TENTHS * fps
           IN  IF \/ Len(rel) = RELEASE_FRAMES /\ AllTrue(rel)
                  \/ delta >= ANGLE_THRESH_DEG * 10 /\ long_enough
               THEN [m EXCEPT !.events = Append(m.events, m.direction[1]),
                              !.state = "idle", !.arm = <<>>, !.rel = <<>>,
                              !.start_i = <<>>, !.start_heading = <<>>, !.direction = <<>>,
                              !.obs = Observe(m.obs, TRUE, FALSE, TRUE)]
               ELSE [m EXCEPT !.arm = arm, !.rel = rel]

\* the whole loop `for i in range(len(times))'
TurnLoop(angles_deg, times) ==
  LET a == MedianFilter(angles_deg, SMOOTH_WIN)
      heading == CumSum(a)
      F[i \in 0..Len(times)] ==
        IF i = 0 THEN tm0 ELSE TurnMachine(F[i - 1], i, a, heading, times)
  IN  F[Len(times)]

CountOf(events, d) == Cardinality({k \in 1..Len(events) : events[k] = d})

TurnOthers == <<ext, fps, call, batch, ce, lc, bl, px, sp>>

TurnEmptyStream ==
  /\ ext \in TurnScans /\ pc = "open"
  /\ pc' = "done"
  /\ out' = <<[turn_count |-> 0, left |-> 0, right |-> 0]>>
  /\ UNCHANGED <<tc, obs>>
  /\ UNCHANGED TurnOthers

TurnFirstFrame ==
  /\ ext \in TurnScans /\ pc = "open"
  /\ pc' = "scan"
  /\ UNCHANGED <<tc, obs, out>>
  /\ UNCHANGED TurnOthers

TurnFrame ==
  /\ ext \in TurnScans /\ pc = "scan"
  /\ tc.sampled < MaxTurnSamples
  /\ tc.frame_idx < MaxTurnFrames
  /\ LET frame_idx == tc.frame_idx + 1
     IN  IF frame_idx % TurnStep # 0
         THEN tc' = [tc EXCEPT !.frame_idx = frame_idx]
         ELSE \E inp \in TurnInputsOf(ext) :
                /\ (tc.sampled > 0 /\ inp # tc.last) => tc.chg < MaxChanges
                /\ tc' = [TurnSample(tc, inp) EXCEPT !.frame_idx = frame_idx]
  /\ UNCHANGED <<pc, obs, out>>
  /\ UNCHANGED TurnOthers

\* end of the stream: fewer than three samples give the zero result, otherwise the
\* rotations are smoothed and integrated and the arming loop counts the turns
TurnFinish ==
  /\ ext \in TurnScans /\ pc = "scan"
  /\ IF Len(tc.angles_deg) < 3
     THEN /\ out' = <<[turn_count |-> 0, left |-> 0, right |-> 0]>>
          /\ UNCHANGED <<tc, obs>>
     ELSE LET m == TurnLoop(tc.angles_deg, tc.times)
          IN  /\ tc' = [tc EXCEPT !.m = <<m>>]
              /\ obs' = m.obs
              /\ out' = <<[turn_count |-> Len(m.events),
                            left |-> CountOf(m.events, "left"),
                            right |-> CountOf(m.events, "right")]>>
  /\ pc' = "done"
  /\ UNCHANGED TurnOthers

InitTurn ==
  /\ ext = "turn"
  /\ fps \in FpsSet
  /\ pc = "open"
  /\ tc = tc0
  /\ ce = <<>> /\ lc = <<>> /\ bl = <<>> /\ px = <<>> /\ sp = <<>>
  /\ obs = obs0
  /\ out = <<>>
  /\ call = <<>> /\ batch = <<>>

NextTurn == TurnEmptyStream \/ TurnFirstFrame \/ TurnFrame \/ TurnFinish

SpecTurn == InitTurn /\ [][NextTurn]_vars

\* the same scan over the second set of rotations, at 20 frames per second
InitTurnEdge ==
  /\ ext = "turn_edge"
  /\ fps = 20
  /\ pc = "open"
  /\ tc = tc0
  /\ ce = <<>> /\ lc = <<>> /\ bl = <<>> /\ px = <<>> /\ sp = <<>>
  /\ obs = obs0
  /\ out = <<>>
  /\ call = <<>> /\ batch = <<>>

SpecTurnEdge == InitTurnEdge /\ [][NextTurn]_vars

----------------------------------------------------------------------------
(* EnhancedProximityDetector *)

DANGEROUS_DISTANCE_M == 15
CRITICAL_DISTANCE_M == 8
TTC_THRESHOLD_SEC == 4
MIN_TRACK_FRAMES == 5
MIN_BOX_HEIGHT_PCT == 20     \* MIN_BOX_HEIGHT_RATIO = 0.20
PROX_STRIDE == 2             \* `if frame_idx % 2 != 0: continue'
RECENT == 5                  \* the last-five window of calculate_ttc and is_lateral_movement

\* frame sizes the container reports: <<width, height>>
FrameSizes == {<<1280, 720>>, <<4000, 560>>}

\* real_heights, millimetres; any other class counts as 1.5 m
RealHeightMM(cls) ==
  CASE cls = "car" -> 1500
    [] cls = "truck" -> 3000
    [] cls = "bus" -> 3500
    [] cls = "motorcycle" -> 1200
    [] cls = "bicycle" -> 1500
    [] OTHER -> 1500

TrackedClasses == {"car", "truck", "bus", "motorcycle"}

\* estimate_distance with every box counted as above the horizon line
EstimateDistanceAbove(box, cls, width, height) ==
  LET box_height_px == box.y2 - box.y1
  IN  IF box_height_px <= 0 THEN 100 * 1000
      ELSE Min(Max((3 * ((RealHeightMM(cls) * width) \div (2 * box_height_px))) \div 2, 1000),
               100 * 1000)

\* estimate_distance, millimetres (rounded down): pinhole model with
\* focal_length = width / (2 tan 45 deg) = width / 2, half as far again above the
\* horizon line, clipped to 1..100 m
EstimateDistance(box, cls, width, height) ==
  LET box_height_px == box.y2 - box.y1
  IN  IF box_height_px <= 0 THEN 100 * 1000
      ELSE LET d0 == (RealHeightMM(cls) * width) \div (2 * box_height_px)
               d1 == IF 10 * (box.y1 + box.y2) < 9 * height THEN (3 * d0) \div 2 ELSE d0
           IN  Min(Max(d1, 1000), 100 * 1000)

RECURSIVE GCD(_, _)
GCD(a, b) == IF b = 0 THEN a ELSE GCD(b, a % b)

\* the first k decimal digits of r / q, for 0 <= r < q
RECURSIVE FracDigits(_, _, _)
FracDigits(r, q, k) ==
  IF k = 0 THEN 0
  ELSE ((10 * r) \div q) * Pow(10, k - 1) + FracDigits((10 * r) % q, q, k - 1)

SumOver(s, f(_)) ==
  LET F[k \in 0..Len(s)] == IF k = 0 THEN 0 ELSE F[k - 1] + f(s[k])
  IN  F[Len(s)]

\* calculate_ttc: <<>> for infinity, else <<p, q>>, the time p / q in seconds.
\* The slope of the least-squares line through (time, distance) of the recent
\* samples is fps * num / den millimetres per second.
CalculateTTC(track_history, f) ==
  IF Len(track_history) < 3 THEN <<>>
  ELSE LET recent == LastN(track_history, RECENT)
           k == Len(recent)
           x(h) == h.time - recent[1].time
           xd(h) == x(h) * h.distance
           xx(h) == x(h) * x(h)
           dd(h) == h.distance
           num == k * SumOver(recent, xd) - SumOver(recent, x) * SumOver(recent, dd)
           den == k * SumOver(recent, xx) - SumOver(recent, x) * SumOver(recent, x)
       IN  IF k < 2 \/ f * num >= -100 * den THEN <<>>
           ELSE LET p == recent[k].distance * den
                    q == f * (-num)
                    g == GCD(p, q)
                IN  << p \div g, q \div g >>

\* is_lateral_movement: the centre moved more than 30% of the width over the
\* recent samples (cx2 is twice the centre x)
IsLateralMovement(track_history, width) ==
  IF Len(track_history) < 3 THEN FALSE
  ELSE LET recent == LastN(track_history, RECENT)
       IN  10 * Abs(recent[Len(recent)].cx2 - recent[1].cx2) > 6 * width

\* ttc < TTC_THRESHOLD_SEC
IsApproaching(ttc) == ttc # <<>> /\ ttc[1] < TTC_THRESHOLD_SEC * ttc[2]

\* danger_score in millionths, each term rounded down:
\* 0.5 / max(distance, 0.5) + 0.3 * ttc_factor + 0.2 * box_height / height
DangerScore(distance, ttc, box_height, height) ==
  LET distance_factor == (1000 * 1000 * 1000) \div Max(distance, 500)
      ttc_factor == IF ttc = <<>> THEN 500 * 1000
                    ELSE IF 2 * ttc[1] <= ttc[2] THEN 2 * 1000 * 1000
                    ELSE (ttc[2] \div ttc[1]) * 1000 * 1000
                           + FracDigits(ttc[2] % ttc[1], ttc[1], 6)
      box_factor == (1000 * 1000 * box_height) \div height
  IN  distance_factor \div 2 + (3 * ttc_factor) \div 10 + box_factor \div 5

\* the danger criteria without the distance tests
IsDangerNoDistance(is_close, is_frontal, is_approaching, is_critical, is_lateral) ==
  is_frontal /\ ~is_lateral

\* the danger criteria without the lateral test
IsDangerNoLateral(is_close, is_frontal, is_approaching, is_critical, is_lateral) ==
  is_close /\ is_frontal /\ (is_approaching \/ is_critical)

\* the danger criteria: close, frontal, approaching or critical, not lateral
IsDanger(is_close, is_frontal, is_approaching, is_critical, is_lateral) ==
  is_close /\ is_frontal /\ (is_approaching \/ is_critical) /\ ~is_lateral

\* the defaultdict's fresh entry
track0 ==
  [ history |-> <<>>, first_frame |-> 0, last_frame |-> 0, min_distance |-> <<>>,
    max_danger_score |-> 0, is_dangerous |-> FALSE, peak |-> <<>> ]

\* one box of a sampled frame: det = [id, cls, x1, y1, x2, y2]
ProxBox(p, det, frame_idx, f) ==
  LET box_height == det.y2 - det.y1
  IN  IF det.cls \notin TrackedClasses THEN p
      ELSE IF 100 * box_height < MIN_BOX_HEIGHT_PCT * p.height THEN p
      ELSE
        LET old == IF det.id \in DOMAIN p.tracks THEN p.tracks[det.id] ELSE track0
            distance == EstimateDistance(det, det.cls, p.width, p.height)
            cx2 == det.x1 + det.x2
            is_frontal == 6 * p.width < 10 * cx2 /\ 10 * cx2 < 14 * p.width
            history == Append(old.history,
                              [time |-> frame_idx, distance |-> distance,
                               box_height |-> box_height, cx2 |-> cx2,
                               is_frontal |-> is_frontal])
            t1 == [old EXCEPT !.history = history,
                              !.last_frame = frame_idx,
                              !.first_frame = IF old.first_frame = 0 THEN frame_idx
                                              ELSE old.first_frame,
                              !.min_distance = IF old.min_distance = <<>>
                                                  \/ distance < old.min_distance[1]
                                               THEN <<distance>> ELSE old.min_distance]
            ttc == CalculateTTC(history, f)
            is_lateral == IsLateralMovement(history, p.width)
            is_close == distance < DANGEROUS_DISTANCE_M * 1000
            is_critical == distance < CRITICAL_DISTANCE_M * 1000
            is_approaching == IsApproaching(ttc)
            danger_score == DangerScore(distance, ttc, box_height, p.height)
            t2 == IF /\ Len(history) >= MIN_TRACK_FRAMES
                     /\ IsDanger(is_close, is_frontal, is_approaching, is_critical, is_lateral)
                     /\ danger_score > t1.max_danger_score
                  THEN [t1 EXCEPT !.max_danger_score = danger_score,
                                  !.is_dangerous = TRUE,
                                  !.peak = << [peak_time |-> frame_idx,
                                               peak_distance |-> distance,
                                               ttc |-> ttc] >>]
                  ELSE t1
        IN  [p EXCEPT !.tracks = [id \in DOMAIN p.tracks \cup {det.id} |->
                                    IF id = det.id THEN t2 ELSE p.tracks[id]],
                      !.order = IF det.id \in DOMAIN p.tracks THEN p.order
                                ELSE Append(p.order, det.id)]

\* all boxes of one sampled frame, in the order the tracker lists them
ProxSample(p, dets, frame_idx, f) ==
  LET F[k \in 0..Len(dets)] ==
        IF k = 0 THEN p ELSE ProxBox(F[k - 1], dets[k], frame_idx, f)
  IN  F[Len(dets)]

MaxOver(s, f(_)) ==
  LET F[k \in 1..Len(s)] == IF k = 1 THEN f(s[1]) ELSE Max(F[k - 1], f(s[k]))
  IN  F[Len(s)]

\* ProxEncounter without the cap of the peak score at 1
ProxEncounterNoCap(t, width, height, f) ==
  LET history == t.history
      n == Len(history)
      cx2(h) == h.cx2
      bh(h) == h.box_height
      sum_cx2 == SumOver(history, cx2)
      \* avg_x < width * 0.33, avg_x > width * 0.67
      location == IF 100 * sum_cx2 < 66 * width * n THEN "left"
                  ELSE IF 100 * sum_cx2 > 134 * width * n THEN "right"
                  ELSE "center"
      peak_score == t.max_danger_score
  IN  [ start_time |-> Round2(history[1].time, f),
        end_time |-> Round2(history[n].time, f),
        peak_time |-> Round2(IF t.peak # <<>> THEN t.peak[1].peak_time
                                              ELSE history[1].time, f),
        peak_score |-> RoundHalfEven(peak_score, 1000),
        where |-> location,
        max_box_height_norm |-> RoundHalfEven(1000 * MaxOver(history, bh), height),
        min_distance_m |-> RoundHalfEven(t.min_distance[1], 10) ]

\* an encounter that begins at the track's peak instead of its first sample
ProxEncounterFromPeak(t, width, height, f) ==
  LET e == ProxEncounterNoCap(t, width, height, f)
  IN  [e EXCEPT !.start_time = e.peak_time]

\* the close encounter a dangerous track is reported as (times in centiseconds,
\* peak_score and max_box_height_norm in thousandths, min_distance in centimetres)
ProxEncounter(t, width, height, f) ==
  LET history == t.history
      n == Len(history)
      cx2(h) == h.cx2
      bh(h) == h.box_height
      sum_cx2 == SumOver(history, cx2)
      \* avg_x < width * 0.33, avg_x > width * 0.67
      location == IF 100 * sum_cx2 < 66 * width * n THEN "left"
                  ELSE IF 100 * sum_cx2 > 134 * width * n THEN "right"
                  ELSE "center"
      peak_score == Min(t.max_danger_score, 1000 * 1000)
  IN  [ start_time |-> Round2(history[1].time, f),
        end_time |-> Round2(history[n].time, f),
        peak_time |-> Round2(IF t.peak # <<>> THEN t.peak[1].peak_time
                                              ELSE history[1].time, f),
        peak_score |-> RoundHalfEven(peak_score, 1000),
        where |-> location,
        max_box_height_norm |-> RoundHalfEven(1000 * MaxOver(history, bh), height),
        min_distance_m |-> RoundHalfEven(t.min_distance[1], 10) ]

\* ProxEncounters without the test of is_dangerous
ProxEncountersAll(p, f) ==
  LET keep == {k \in 1..Len(p.order) :
                 Len(p.tracks[p.order[k]].history) >= MIN_TRACK_FRAMES}
      ids == SelectIdx(p.order, keep)
  IN  [k \in 1..Len(ids) |-> ProxEncounter(p.tracks[ids[k]], p.width, p.height, f)]

\* `for track_id, track_data in vehicle_tracks.items()': one encounter per
\* dangerous track with enough history, in the order the tracks were first seen
ProxEncounters(p, f) ==
  LET keep == {k \in 1..Len(p.order) :
                 /\ p.tracks[p.order[k]].is_dangerous
                 /\ Len(p.tracks[p.order[k]].history) >= MIN_TRACK_FRAMES}
      ids == SelectIdx(p.order, keep)
  IN  [k \in 1..Len(ids) |-> ProxEncounter(p.tracks[ids[k]], p.width, p.height, f)]

\* A box of a sampled frame, given in percent of the frame: centre (cxp, cyp),
\* height hp; every box is 10% of the frame wide.
Det(id, cls, cxp, cyp, hp, width, height) ==
  [ id |-> id, cls |-> cls,
    x1 |-> (width * (cxp - 5)) \div 100, x2 |-> (width * (cxp + 5)) \div 100,
    y1 |-> (height * (2 * cyp - hp)) \div 200, y2 |-> (height * (2 * cyp + hp)) \div 200 ]

\* what the tracker reports for one sampled frame
ProxInputs(width, height) ==
  { <<>>,
    << Det(1, "car", 50, 60, 50, width, height) >>,
    << Det(1, "bus", 50, 60, 25, width, height) >>,
    << Det(1, "bus", 50, 60, 30, width, height) >>,
    << Det(1, "car", 50, 60, 50, width, height), Det(2, "car", 45, 60, 50, width, height) >>,
    << Det(1, "car", 85, 60, 50, width, height) >>,
    << Det(1, "car", 50, 50, 90, width, height) >> }

\* A second set of frames, for scans with tracks near the sides of the frontal
\* region: a car centred at 31 % of the width, one at 69 %, and both together
\* with a third car at 85 %.
ProxSideInputs(width, height) ==
  { <<>>,
    << Det(1, "car", 31, 60, 50, width, height) >>,
    << Det(1, "car", 69, 60, 50, width, height) >>,
    << Det(1, "car", 31, 60, 50, width, height), Det(2, "car", 69, 60, 50, width, height),
       Det(3, "car", 85, 60, 50, width, height) >> }

\* A third set of frames, for scans of boxes at the limits of the filters: a car
\* whose box is exactly 20 % of the frame high and centred on the horizon line,
\* a nearer car, a motorcycle, a car at 85 % of the width, a car centred just
\* above the horizon line, a truck.
ProxNearInputs(width, height) ==
  { <<>>,
    << Det(1, "car", 50, 45, 20, width, height) >>,
    << Det(1, "car", 50, 60, 50, width, height) >>,
    << Det(1, "motorcycle", 50, 60, 20, width, height) >>,
    << Det(1, "car", 85, 60, 20, width, height) >>,
    << Det(1, "car", 50, 44, 20, width, height) >>,
    << Det(1, "truck", 50, 60, 20, width, height) >> }

\* frames of 16:9 and 4:3
NearFrameSizes == {<<1280, 720>>, <<1920, 1080>>, <<640, 480>>}

\* the scans of EnhancedProximityDetector in the model and the frames each draws from
ProxScans == {"prox", "prox_side", "prox_near"}
ProxInputsOf(e, width, height) ==
  IF e = "prox_side" THEN ProxSideInputs(width, height)
  ELSE IF e = "prox_near" THEN ProxNearInputs(width, height)
  ELSE ProxInputs(width, height)

px0(width, height) ==
  [ width |-> width, height |-> height, frame_idx |-> 0, sampled |-> 0,
    tracks |-> <<>>, order |-> <<>>, last |-> <<>>, chg |-> 0 ]

ProxOthers == <<ext, fps, call, batch, ce, tc, lc, bl, sp, obs>>

ProxFrame ==
  /\ ext \in ProxScans /\ pc = "scan"
  /\ px.frame_idx < MaxProxFrames
  /\ LET frame_idx == px.frame_idx + 1
     IN  IF frame_idx % PROX_STRIDE # 0
         THEN px' = [px EXCEPT !.frame_idx = frame_idx]
         ELSE \E dets \in ProxInputsOf(ext, px.width, px.height) :
                /\ (px.sampled > 0 /\ dets # px.last) => px.chg < MaxChanges
                /\ px' = [ProxSample(px, dets, frame_idx, fps) EXCEPT
                            !.frame_idx = frame_idx,
                            !.sampled = px.sampled + 1,
                            !.last = dets,
                            !.chg = IF px.sampled > 0 /\ dets # px.last
                                    THEN px.chg + 1 ELSE px.chg]
  /\ UNCHANGED <<pc, out>>
  /\ UNCHANGED ProxOthers

\* end of the stream: the dangerous tracks become the close encounters
ProxFinish ==
  /\ ext \in ProxScans /\ pc = "scan"
  /\ LET close_encounters == ProxEncounters(px, fps)
     IN  out' = <<[close_encounters |-> close_encounters,
                   event_count |-> Len(close_encounters)]>>
  /\ pc' = "done"
  /\ UNCHANGED px
  /\ UNCHANGED ProxOthers

InitProx ==
  /\ ext = "prox"
  /\ fps \in FpsSet
  /\ pc = "scan"
  /\ \E wh \in FrameSizes : px = px0(wh[1], wh[2])
  /\ ce = <<>> /\ tc = <<>> /\ lc = <<>> /\ bl = <<>> /\ sp = <<>>
  /\ obs = obs0
  /\ out = <<>>
  /\ call = <<>> /\ batch = <<>>

NextProx == ProxFrame \/ ProxFinish

SpecProx == InitProx /\ [][NextProx]_vars

\* the same scan over the second set of frames
InitProxSide ==
  /\ ext = "prox_side"
  /\ fps \in FpsSet
  /\ pc = "scan"
  /\ \E wh \in FrameSizes : px = px0(wh[1], wh[2])
  /\ ce = <<>> /\ tc = <<>> /\ lc = <<>> /\ bl = <<>> /\ sp = <<>>
  /\ obs = obs0
  /\ out = <<>>
  /\ call = <<>> /\ batch = <<>>

SpecProxSide == InitProxSide /\ [][NextProx]_vars

\* the same scan over the third set of frames
InitProxNear ==
  /\ ext = "prox_near"
  /\ fps \in FpsSet
  /\ pc = "scan"
  /\ \E wh \in NearFrameSizes : px = px0(wh[1], wh[2])
  /\ ce = <<>> /\ tc = <<>> /\ lc = <<>> /\ bl = <<>> /\ sp = <<>>
  /\ obs = obs0
  /\ out = <<>>
  /\ call = <<>> /\ batch = <<>>

SpecProxNear == InitProxNear /\ [][NextProx]_vars

----------------------------------------------------------------------------
(* calculate_average_speed *)

SPEED_HZ == 5                \* `Sample rate for efficiency (5 times per second)'
MIN_SPEED == 0
MAX_SPEED == 150

\* sample_rate = max(1, int(fps / 5))
SampleRate(f) == Max(1, f \div SPEED_HZ)

\* What optical flow yields for one processed pair of frames: <<v>>, the speed
\* flow_magnitude * meters_per_pixel * (fps / sample_rate) * 3.6 in km/h, or <<>>
\* when the ROI is empty, there is no flow or no flow vector is positive.
SpeedInputs == {<<>>, <<30>>, <<200>>}

sp0 ==
  [ frame_count |-> 0, sampled_at |-> <<>>, has_prev |-> FALSE,
    all_frame_speeds_kmph |-> <<>> ]

\* the sorted copy of a sequence of integers
SortedSeq(s) == [k \in 1..Len(s) |-> KthSmallest(s, k)]

\* four times np.percentile(s, 25 * quarter): linear interpolation between the
\* order statistics around position (n - 1) * quarter / 4
Percentile4(s, quarter) ==
  LET srt == SortedSeq(s)
      pos == (Len(s) - 1) * quarter
      k == pos \div 4 + 1
      r == pos % 4
  IN  IF r = 0 THEN 4 * srt[k] ELSE 4 * srt[k] + r * (srt[k + 1] - srt[k])

\* the speeds that survive the IQR filter (all of them when none does)
FilteredSpeeds(speeds) ==
  LET q1 == Percentile4(speeds, 1)
      q3 == Percentile4(speeds, 3)
      iqr == q3 - q1
      \* bounds in eighths of a km/h
      lower_bound == Max(8 * MIN_SPEED, 2 * q1 - 3 * iqr)
      upper_bound == Min(8 * MAX_SPEED, 2 * q3 + 3 * iqr)
      keep == {k \in 1..Len(speeds) :
                 8 * speeds[k] >= lower_bound /\ 8 * speeds[k] <= upper_bound}
  IN  IF keep = {} THEN speeds ELSE SelectIdx(speeds, keep)

SeqSum(s) ==
  LET F[k \in 0..Len(s)] == IF k = 0 THEN 0 ELSE F[k - 1] + s[k]
  IN  F[Len(s)]

\* the returned mean as the fraction <<sum, count>>; <<0, 1>> is the 0.0 of an
\* unopened video or of a scan without speeds
AverageSpeed(speeds) ==
  IF speeds = <<>> THEN <<0, 1>>
  ELSE LET filtered_speeds == FilteredSpeeds(speeds)
       IN  << SeqSum(filtered_speeds), Len(filtered_speeds) >>

SpeedOthers == <<ext, fps, call, batch, ce, tc, lc, bl, px, obs>>

\* the sample as measured, unclipped
ClipSpeedNone(speed_kmph) == speed_kmph

\* speed_kmph = np.clip(speed_kmph, min_speed, max_speed)
ClipSpeed(speed_kmph) == Min(Max(speed_kmph, MIN_SPEED), MAX_SPEED)

\* `if not cap.isOpened(): return 0.0'
SpeedOpenFails ==
  /\ ext = "speed" /\ pc = "open"
  /\ pc' = "done"
  /\ out' = <<[avg_speed |-> <<0, 1>>]>>
  /\ UNCHANGED sp
  /\ UNCHANGED SpeedOthers

SpeedOpen ==
  /\ ext = "speed" /\ pc = "open"
  /\ pc' = "scan"
  /\ UNCHANGED <<sp, out>>
  /\ UNCHANGED SpeedOthers

SpeedFrame ==
  /\ ext = "speed" /\ pc = "scan"
  /\ Len(sp.sampled_at) < MaxSpeedSamples
  /\ LET frame_count == sp.frame_count + 1
         s1 == [sp EXCEPT !.frame_count = frame_count]
     IN  IF frame_count % SampleRate(fps) # 0
         THEN sp' = s1
         ELSE LET s2 == [s1 EXCEPT !.sampled_at = Append(sp.sampled_at, frame_count)]
              IN  IF ~sp.has_prev
                  THEN sp' = [s2 EXCEPT !.has_prev = TRUE]
                  ELSE \E inp \in SpeedInputs :
                         sp' = IF inp = <<>> THEN s2
                               ELSE [s2 EXCEPT !.all_frame_speeds_kmph =
                                       Append(sp.all_frame_speeds_kmph, ClipSpeed(inp[1]))]
  /\ UNCHANGED <<pc, out>>
  /\ UNCHANGED SpeedOthers

SpeedFinish ==
  /\ ext = "speed" /\ pc = "scan"
  /\ pc' = "done"
  /\ out' = <<[avg_speed |-> AverageSpeed(sp.all_frame_speeds_kmph)]>>
  /\ UNCHANGED sp
  /\ UNCHANGED SpeedOthers

InitSpeed ==
  /\ ext = "speed"
  /\ fps \in FpsSetAll
  /\ pc = "open"
  /\ sp = sp0
  /\ ce = <<>> /\ tc = <<>> /\ lc = <<>> /\ bl = <<>> /\ px = <<>>
  /\ obs = obs0
  /\ out = <<>>
  /\ call = <<>> /\ batch = <<>>

NextSpeed == SpeedOpenFails \/ SpeedOpen \/ SpeedFrame \/ SpeedFinish

SpecSpeed == InitSpeed /\ [][NextSpeed]_vars

----------------------------------------------------------------------------
(* Specifications over several extractors: a behaviour is a scan by any one of them *)

\* the four hysteresis machines
InitHyst == InitCE \/ InitLC \/ InitBus \/ InitTurn
NextHyst == NextCE \/ NextLC \/ NextBus \/ NextTurn
SpecHyst == InitHyst /\ [][NextHyst]_vars

\* the extractors that return timed events
InitEvents == InitCE \/ InitProx \/ InitBus
NextEvents == NextCE \/ NextProx \/ NextBus
SpecEvents == InitEvents /\ [][NextEvents]_vars

\* two scans with a target sampling rate
InitSample == InitCE \/ InitSpeed
NextSample == NextCE \/ NextSpeed
SpecSample == InitSample /\ [][NextSample]_vars

----------------------------------------------------------------------------
(* One call of an extractor entry point, from the call to the return or the *)
(* raise: the capability check, the loading of the detector, the opening of *)
(* the video, the first read, the read loop and the release of the handle.  *)
(* What the scan computes is the subject of the specifications above; here  *)
(* a frame is only "read", and a step of the loop body either completes or  *)
(* raises.                                                                   *)

MaxCallFrames == 3

Entries ==
  {"calculate_average_speed", "run_traffic_signal_summary", "run_close_encounters",
   "run_turn_count", "run_lane_change_count", "run_bus_lane_color",
   "estimate_speed_multimethod", "detect_close_encounters_enhanced"}

\* `if not _HAS_YOLO:' / `if not HAS_YOLO:' is the first statement
ChecksCapabilityNever(e) == FALSE

ChecksCapability(e) == e \in {"run_close_encounters", "detect_close_encounters_enhanced"}

NoCapabilityResult(e) ==
  IF e = "run_close_encounters"
  THEN [close_encounters |-> <<>>, event_count |-> 0, note |-> "ultralytics not installed"]
  ELSE [close_encounters |-> <<>>, event_count |-> 0, error |-> "YOLO not available"]

\* run_close_encounters builds YOLO(MODEL_WEIGHTS) before cv2.VideoCapture,
\* detect_encounters builds it after __init__ opened the video
LoadsModelBeforeOpen(e) == e = "run_close_encounters"
LoadsModelAfterOpen(e) == e = "detect_close_encounters_enhanced"

\* what `if not cap.isOpened()' does
OpenFailureRaises(e) ==
  e \in {"run_traffic_signal_summary", "run_close_encounters",
         "estimate_speed_multimethod", "detect_close_encounters_enhanced"}

ZeroCounts == [turn_count |-> 0, left |-> 0, right |-> 0]

OpenFailureResult(e) ==
  CASE e = "calculate_average_speed" -> [average_speed |-> 0]
    [] e \in {"run_turn_count", "run_lane_change_count"} -> ZeroCounts
    [] e = "run_bus_lane_color" -> [violation_detected |-> FALSE, violation_ranges |-> <<>>]

\* the entry points that read one frame before their loop
ReadsFirstFrame(e) ==
  e \in {"run_traffic_signal_summary", "run_close_encounters", "run_turn_count",
         "run_lane_change_count", "estimate_speed_multimethod"}

\* `if not ok: cap.release(); return ...'; run_traffic_signal_summary falls through
\* to its cap.release(); method_ego_motion returns 0.0, 0.0 at once
ReleasesOnNoFirstFrame(e) == e # "estimate_speed_multimethod"

NoFirstFrameResult(e) ==
  CASE e = "run_traffic_signal_summary" ->
         [violations |-> <<>>, traffic_violation_windows |-> <<>>, violation |-> FALSE]
    [] e = "run_close_encounters" -> [close_encounters |-> <<>>, event_count |-> 0]
    [] e \in {"run_turn_count", "run_lane_change_count"} -> ZeroCounts
    [] e = "estimate_speed_multimethod" ->
         [average_speed_kmh |-> 0, confidence |-> 0, method |-> "enhanced_ego_motion",
          successful |-> FALSE]

\* what the first read can give: a frame, nothing, or (method_ego_motion) a frame
\* in which goodFeaturesToTrack finds no feature
FirstFrameOutcomes(e) ==
  {"ok", "no_first_frame"} \cup
  (IF e = "estimate_speed_multimethod" THEN {"no_features"} ELSE {})

\* the loop body of run_traffic_signal_summary only counts frames; every other
\* loop body calls the detector or image operations, outside any try block
RaisesInLoop(e) == e # "run_traffic_signal_summary"

\* what one pass of the loop body can do after a successful read
FrameOutcomes(e) ==
  {"next"} \cup
  (IF RaisesInLoop(e) THEN {"exception"} ELSE {}) \cup
  (IF e = "estimate_speed_multimethod" THEN {"break"} ELSE {})

\* the value computed from the frames read (its content is not modelled here)
ScanResult(e, n) == [scanned |-> e, frames |-> n]

call0(openable, has_yolo) ==
  [openable |-> openable, has_yolo |-> has_yolo, model_loaded |-> FALSE,
   cap |-> "none", frames |-> 0, exit |-> "", raised |-> "", result |-> <<>>,
   pos |-> 0, reads |-> <<>>]

Return(c, how, value) == [c EXCEPT !.exit = how, !.result = <<value>>]
Raise(c, how, err) == [c EXCEPT !.exit = how, !.raised = err]
Release(c) == [c EXCEPT !.cap = "released"]

\* a read that leaves the handle where it was
ReadFrameAgain(c) == [c EXCEPT !.reads = Append(@, c.pos)]

\* a successful cap.read(): the handle delivers the frame at its position and
\* moves on by one; c.reads lists the native indexes delivered so far
ReadFrame(c) == [c EXCEPT !.reads = Append(@, c.pos), !.pos = c.pos + 1]

\* self.cap.set(cv2.CAP_PROP_POS_FRAMES, 0) before the first read
SeeksToStart(e) == e = "estimate_speed_multimethod"

CallOthers == <<ext, fps, ce, tc, lc, bl, px, sp, obs, out, batch>>

\* the capability is missing: the degraded result, before anything is opened
CallNoCapability ==
  /\ ext \in Entries /\ pc = "entry"
  /\ ChecksCapability(ext) /\ ~call.has_yolo
  /\ call' = Return(call, "no_capability", NoCapabilityResult(ext))
  /\ pc' = "done"
  /\ UNCHANGED CallOthers

\* model = YOLO(...): the weights load, or the library raises (the name YOLO is
\* unbound when the import failed)
CallLoadModel ==
  /\ ext \in Entries /\ ~call.model_loaded
  /\ ChecksCapability(ext) => call.has_yolo
  /\ \/ LoadsModelBeforeOpen(ext) /\ pc = "entry"
     \/ LoadsModelAfterOpen(ext) /\ pc = "open"
  /\ \E loads \in (IF call.has_yolo THEN BOOLEAN ELSE {FALSE}) :
       IF loads
       THEN /\ call' = [call EXCEPT !.model_loaded = TRUE]
            /\ pc' = IF LoadsModelAfterOpen(ext) THEN "scan" ELSE pc
       ELSE /\ call' = Raise(call, "model_load_failed", "Exception")
            /\ pc' = "done"
  /\ UNCHANGED CallOthers

\* cap = cv2.VideoCapture(video_path); if not cap.isOpened(): ...
CallOpen ==
  /\ ext \in Entries /\ pc = "entry"
  /\ ChecksCapability(ext) => call.has_yolo
  /\ LoadsModelBeforeOpen(ext) => call.model_loaded
  /\ IF call.openable
     THEN /\ call' = [call EXCEPT !.cap = "open"]
          /\ pc' = IF ReadsFirstFrame(ext) \/ LoadsModelAfterOpen(ext) THEN "open" ELSE "scan"
     ELSE /\ call' = IF OpenFailureRaises(ext)
                     THEN Raise(call, "open_failed", "RuntimeError")
                     ELSE Return(call, "open_failed", OpenFailureResult(ext))
          /\ pc' = "done"
  /\ UNCHANGED CallOthers

\* the read before the loop
CallFirstFrame ==
  /\ ext \in Entries /\ pc = "open" /\ ReadsFirstFrame(ext)
  /\ \E o \in FirstFrameOutcomes(ext) :
       LET c0 == IF SeeksToStart(ext) THEN [call EXCEPT !.pos = 0] ELSE call
           c1 == IF o = "no_first_frame" THEN c0 ELSE ReadFrame(c0)
       IN  IF o = "ok"
           THEN /\ call' = c1
                /\ pc' = "scan"
           ELSE /\ call' = Return(IF ReleasesOnNoFirstFrame(ext) THEN Release(c1) ELSE c1,
                                  o, NoFirstFrameResult(ext))
                /\ pc' = "done"
  /\ UNCHANGED CallOthers

\* one frame read and one pass of the loop body
CallFrame ==
  /\ ext \in Entries /\ pc = "scan"
  /\ call.frames < MaxCallFrames
  /\ \E o \in FrameOutcomes(ext) :
       CASE o = "next" ->
              /\ call' = ReadFrame([call EXCEPT !.frames = @ + 1])
              /\ pc' = pc
         [] o = "exception" ->
              /\ call' = Raise(ReadFrame([call EXCEPT !.frames = @ + 1]), "exception", "Exception")
              /\ pc' = "done"
         [] o = "break" ->
              /\ call' = Return(Release(ReadFrame([call EXCEPT !.frames = @ + 1])), "break",
                                ScanResult(ext, call.frames + 1))
              /\ pc' = "done"
  /\ UNCHANGED CallOthers

\* the read fails: the loop ends, the handle is released, the result is returned
CallEndOfStream ==
  /\ ext \in Entries /\ pc = "scan"
  /\ call' = Return(Release(call), "end_of_stream", ScanResult(ext, call.frames))
  /\ pc' = "done"
  /\ UNCHANGED CallOthers

InitCall ==
  /\ ext \in Entries
  /\ fps = 30
  /\ pc = "entry"
  /\ ce = <<>> /\ tc = <<>> /\ lc = <<>> /\ bl = <<>> /\ px = <<>> /\ sp = <<>>
  /\ obs = <<>>
  /\ out = <<>>
  /\ call \in {call0(o, y) : o \in BOOLEAN, y \in BOOLEAN}
  /\ batch = <<>>

NextCall ==
  CallNoCapability \/ CallLoadModel \/ CallOpen \/ CallFirstFrame \/ CallFrame \/ CallEndOfStream

SpecCall == InitCall /\ [][NextCall]_vars

\* a call that can take a step takes one: the interpreter runs the function on
FairSpecCall == SpecCall /\ WF_vars(NextCall)

----------------------------------------------------------------------------
(* analyze_video and main_batch_process.  A video is a record: its file    *)
(* name, whether cv2.VideoCapture can open it, and whether the detector    *)
(* raises while the close encounters are scanned.  The module flags are    *)
(* HAS_ENHANCED_SPEED, HAS_ENHANCED_PROXIMITY and the import of the        *)
(* detection library.                                                      *)

MaxVideos == 3

VideoNames == <<"a.mp4", "Dashcam004.mp4", "c.mp4", "d.mp4">>

videos_with_custom_calibration == {"Dashcam004.mp4", "speed-highway.mp4"}

VideoKinds ==
  {[openable |-> TRUE, detector_raises |-> FALSE],
   [openable |-> TRUE, detector_raises |-> TRUE],
   [openable |-> FALSE, detector_raises |-> FALSE]}

OpenFailureText(e) ==
  IF e \in {"estimate_speed_multimethod", "detect_close_encounters_enhanced"}
  THEN "Cannot open video"
  ELSE "Could not open video"

\* what one entry point gives its caller for video v: a value or an exception
CallOutcome(e, v, has_yolo) ==
  CASE ChecksCapability(e) /\ ~has_yolo ->
         [raised |-> "", result |-> <<NoCapabilityResult(e)>>]
    [] ~(ChecksCapability(e) /\ ~has_yolo) /\ ~v.openable ->
         IF OpenFailureRaises(e)
         THEN [raised |-> OpenFailureText(e), result |-> <<>>]
         ELSE [raised |-> "", result |-> <<OpenFailureResult(e)>>]
    [] OTHER ->
         IF ChecksCapability(e) /\ v.detector_raises
         THEN [raised |-> "detector error", result |-> <<>>]
         ELSE [raised |-> "", result |-> <<ScanResult(e, MaxCallFrames)>>]

\* the extractors analyze_video calls, in its order (the metadata probe of lines
\* 768-774 never raises: an unopened capture reports 0 and fps defaults to 30)
AnalysisCalls(v, flags) ==
  << IF flags.has_enhanced_speed /\ v.name \notin videos_with_custom_calibration
     THEN "estimate_speed_multimethod" ELSE "calculate_average_speed",
     "run_traffic_signal_summary",
     IF flags.has_enhanced_proximity
     THEN "detect_close_encounters_enhanced" ELSE "run_close_encounters",
     "run_turn_count", "run_lane_change_count", "run_bus_lane_color" >>

\* analyze_video: the first exception of a call propagates, otherwise the results
\* are collected (the fallback to calculate_average_speed after an unconfident
\* enhanced speed only changes the speed value)
AnalyzeVideo(v, flags) ==
  LET calls == AnalysisCalls(v, flags)
      o == [k \in 1..Len(calls) |-> CallOutcome(calls[k], v, flags.has_yolo)]
      bad == {k \in 1..Len(calls) : o[k].raised # ""}
  IN  IF bad # {}
      THEN [raised |-> o[CHOOSE k \in bad : \A j \in bad : k <= j].raised, result |-> <<>>]
      ELSE [raised |-> "",
            result |-> <<[video_filename |-> v.name,
                          average_speed_kmph |-> o[1].result[1],
                          traffic_signal_summary |-> o[2].result[1],
                          close_encounters |-> o[3].result[1],
                          turn_changes_orb |-> o[4].result[1],
                          lane_change_count |-> o[5].result[1],
                          illegal_way_bus_lane |-> o[6].result[1]]>>]

\* all_results[video_filename] = {"error": str(e), "status": "failed"}
FailureRecordSilent(e) == [close_encounters |-> <<>>, event_count |-> 0]

FailureRecord(e) == [error |-> e, status |-> "failed"]

BatchInputs(n) ==
  {[k \in 1..n |-> [name |-> VideoNames[k], openable |-> kinds[k].openable,
                    detector_raises |-> kinds[k].detector_raises]] :
     kinds \in [1..n -> VideoKinds]}

batch0(video_files, flags, folder) ==
  [video_files |-> video_files, flags |-> flags,
   i |-> 1,                        \* position of the for loop
   all_results |-> <<>>,           \* dict: video_filename -> entry, as pairs
   output_folder |-> folder,       \* OUTPUT_FOLDER exists
   merged |-> <<>>,                \* contents of MERGED_OUTPUT_JSON once written
   raised |-> ""]

\* all_results[name] = entry
SetEntry(all_results, name, entry) ==
  IF \E k \in 1..Len(all_results) : all_results[k][1] = name
  THEN [k \in 1..Len(all_results) |->
          IF all_results[k][1] = name THEN <<name, entry>> ELSE all_results[k]]
  ELSE Append(all_results, <<name, entry>>)

BatchOthers == <<ext, fps, ce, tc, lc, bl, px, sp, obs, out, call>>

\* `if not video_files: ... return'
BatchNoVideos ==
  /\ ext = "batch" /\ pc = "entry"
  /\ batch.video_files = <<>>
  /\ pc' = "done"
  /\ UNCHANGED batch
  /\ UNCHANGED BatchOthers

\* the calibration data is loaded and the loop is entered
BatchStart ==
  /\ ext = "batch" /\ pc = "entry"
  /\ batch.video_files # <<>>
  /\ pc' = "loop"
  /\ UNCHANGED batch
  /\ UNCHANGED BatchOthers

\* one pass of `for video_path in video_files', its try and its except
BatchVideo ==
  /\ ext = "batch" /\ pc = "loop"
  /\ batch.i <= Len(batch.video_files)
  /\ LET v == batch.video_files[batch.i]
         a == AnalyzeVideo(v, batch.flags)
     IN  batch' = IF a.raised = ""
                  THEN [batch EXCEPT !.i = @ + 1, !.output_folder = TRUE,
                          !.all_results = SetEntry(@, v.name, a.result[1])]
                  ELSE [batch EXCEPT !.i = @ + 1,
                          !.all_results = SetEntry(@, v.name, FailureRecord(a.raised))]
  /\ pc' = pc
  /\ UNCHANGED BatchOthers

\* `with open(MERGED_OUTPUT_JSON, "w") as f: json.dump(all_results, f)': the
\* folder is only created by a pass that succeeded
BatchWriteMerged ==
  /\ ext = "batch" /\ pc = "loop"
  /\ batch.i > Len(batch.video_files)
  /\ batch' = IF batch.output_folder
              THEN [batch EXCEPT !.merged = <<batch.all_results>>]
              ELSE [batch EXCEPT !.raised = "FileNotFoundError"]
  /\ pc' = "write"
  /\ UNCHANGED BatchOthers

\* the summary is printed and main_batch_process returns
BatchReturn ==
  /\ ext = "batch" /\ pc = "write"
  /\ pc' = "done"
  /\ UNCHANGED batch
  /\ UNCHANGED BatchOthers

InitBatch ==
  /\ ext = "batch"
  /\ fps = 30
  /\ pc = "entry"
  /\ ce = <<>> /\ tc = <<>> /\ lc = <<>> /\ bl = <<>> /\ px = <<>> /\ sp = <<>>
  /\ obs = <<>>
  /\ out = <<>>
  /\ call = <<>>
  /\ \E n \in 0..MaxVideos :
       batch \in {batch0(vf, fl, folder) :
                    vf \in BatchInputs(n),
                    fl \in [has_enhanced_speed : BOOLEAN, has_enhanced_proximity : BOOLEAN,
                            has_yolo : BOOLEAN],
                    folder \in BOOLEAN}

NextBatch == BatchNoVideos \/ BatchStart \/ BatchVideo \/ BatchWriteMerged \/ BatchReturn

SpecBatch == InitBatch /\ [][NextBatch]_vars

\* the loop is sequential and every pass ends: a step that can be taken is taken
FairSpecBatch == SpecBatch /\ WF_vars(NextBatch)

----------------------------------------------------------------------------
(* EnhancedSpeedDetector: method_ego_motion and detect_speed.  Speeds are in *)
(* hundredths of a km/h, confidences in hundredths, displacements in tenths  *)
(* of a pixel, scale factors in hundredths of a metre per pixel.             *)

MaxEgoSamples == 4

EGO_STRIDE == 3              \* `if frame_count % 3 != 0'
STATIONARY_TENTHS == 5       \* `if abs(avg_displacement_y) < 0.5'
EGO_MAX_KMH == 150           \* `if 0 <= kmh <= 150'
EGO_MIN_KMH == 3             \* `if 3 <= s <= 150'
MIN_VALID_FRAMES == 3        \* `if valid_frames < 3'
MIN_FILTERED == 3            \* `len(filtered_speeds) >= 3'
SUCCESS_CONF_PCT == 30       \* `confidence > 0.3'

\* What a processed frame yields: <<>> when too few points are tracked or too few
\* are inliers, else << median vertical displacement, number of inliers, scale >>
EgoInputs == {<<>>, <<0, 50, 100>>, <<5, 25, 100>>, <<-50, 50, 100>>, <<50, 5, 40>>}

\* kmh = abs(avg_displacement_y) * fps / 3 * scale_factor * 3.6
EgoKmh(d, scale, f) == (Abs(d) * f * scale * 12) \div 100

\* confidence = min(len(inliers) / 50, 1) * 0.6 + min(abs(avg_displacement_y) / 10, 1) * 0.4
EgoConfidence(d, n) == (120 * Min(n, 50) + 40 * Min(Abs(d), 100)) \div 100

ego0 == [frame_count |-> 0, speeds |-> <<>>, confidences |-> <<>>, valid_frames |-> 0]

\* twice np.median of a non-empty sequence
Median2(s) ==
  LET n == Len(s)
  IN  IF n % 2 = 1 THEN 2 * KthSmallest(s, (n + 1) \div 2)
      ELSE KthSmallest(s, n \div 2) + KthSmallest(s, n \div 2 + 1)

\* sum of s[k] * w[k]
RECURSIVE WeightedSum(_, _)
WeightedSum(s, w) ==
  IF s = <<>> THEN 0 ELSE Head(s) * Head(w) + WeightedSum(Tail(s), Tail(w))

ReasonableIdx(speeds) ==
  {k \in 1..Len(speeds) : 100 * EGO_MIN_KMH <= speeds[k] /\ speeds[k] <= 100 * EGO_MAX_KMH}

\* the confidence-weighted average alone
EgoAggregateNoMinimum(speeds, confidences, valid_frames) ==
  IF speeds = <<>> THEN << <<0, 1>>, <<0, 1>> >>
  ELSE << << WeightedSum(speeds, confidences), SeqSum(confidences) >>,
          << SeqSum(confidences), Len(confidences) >> >>

\* lines 181-225: the pair << final_speed, avg_confidence >>, each a fraction
\* << numerator, denominator >>; << <<0, 1>>, <<0, 1>> >> is `return 0.0, 0.0'
EgoAggregate(speeds, confidences, valid_frames) ==
  IF speeds = <<>> \/ valid_frames < MIN_VALID_FRAMES \/ ReasonableIdx(speeds) = {}
  THEN << <<0, 1>>, <<0, 1>> >>
  ELSE LET reasonable_speeds == SelectIdx(speeds, ReasonableIdx(speeds))
           reasonable_confidences == SelectIdx(confidences, ReasonableIdx(speeds))
           csum == SeqSum(reasonable_confidences)
           weighted_speed == IF csum > 0
                             THEN << WeightedSum(reasonable_speeds, reasonable_confidences), csum >>
                             ELSE << Median2(reasonable_speeds), 2 >>
           avg_confidence == IF csum > 0 THEN << csum, Len(reasonable_confidences) >>
                             ELSE << 50, 1 >>
           q1 == Percentile4(reasonable_speeds, 1)
           q3 == Percentile4(reasonable_speeds, 3)
           iqr == q3 - q1
           \* bounds in eighths of a hundredth
           lower_bound == 2 * q1 - 3 * iqr
           upper_bound == 2 * q3 + 3 * iqr
           keep == {k \in 1..Len(reasonable_speeds) :
                      /\ lower_bound <= 8 * reasonable_speeds[k]
                      /\ 8 * reasonable_speeds[k] <= upper_bound}
           filtered_speeds == SelectIdx(reasonable_speeds, keep)
       IN  IF Len(filtered_speeds) >= MIN_FILTERED
           THEN << << Median2(filtered_speeds), 2 >>, avg_confidence >>
           ELSE << weighted_speed, avg_confidence >>

\* detect_speed: the dictionary built from method_ego_motion's pair
DetectSpeed(pair) ==
  [average_speed_kmh |-> RoundHalfEven(pair[1][1], pair[1][2]),
   confidence |-> RoundHalfEven(pair[2][1], pair[2][2]),
   method |-> "enhanced_ego_motion",
   successful |-> 100 * pair[2][1] > SUCCESS_CONF_PCT * pair[2][2]]

EgoOthers == <<ext, fps, call, batch, ce, tc, lc, bl, px, obs>>

\* `if not ret: return 0.0, 0.0' and `if p0 is None: return 0.0, 0.0'
EgoNoStart ==
  /\ ext = "ego" /\ pc = "open"
  /\ pc' = "done"
  /\ out' = <<DetectSpeed(<< <<0, 1>>, <<0, 1>> >>)>>
  /\ UNCHANGED sp
  /\ UNCHANGED EgoOthers

EgoFirstFrame ==
  /\ ext = "ego" /\ pc = "open"
  /\ pc' = "scan"
  /\ UNCHANGED <<sp, out>>
  /\ UNCHANGED EgoOthers

EgoFrame ==
  /\ ext = "ego" /\ pc = "scan"
  /\ sp.frame_count < EGO_STRIDE * MaxEgoSamples
  /\ LET frame_count == sp.frame_count + 1
         s1 == [sp EXCEPT !.frame_count = frame_count]
     IN  IF frame_count % EGO_STRIDE # 0
         THEN sp' = s1
         ELSE \E inp \in EgoInputs :
                IF inp = <<>> THEN sp' = s1
                ELSE IF Abs(inp[1]) < STATIONARY_TENTHS THEN sp' = s1
                ELSE LET kmh == EgoKmh(inp[1], inp[3], fps)
                     IN  sp' = IF 0 <= kmh /\ kmh <= 100 * EGO_MAX_KMH
                               THEN [s1 EXCEPT !.speeds = Append(@, kmh),
                                       !.confidences = Append(@, EgoConfidence(inp[1], inp[2])),
                                       !.valid_frames = @ + 1]
                               ELSE s1
  /\ UNCHANGED <<pc, out>>
  /\ UNCHANGED EgoOthers

\* the read fails or the tracker loses every point: the loop ends
EgoFinish ==
  /\ ext = "ego" /\ pc = "scan"
  /\ pc' = "done"
  /\ out' = <<DetectSpeed(EgoAggregate(sp.speeds, sp.confidences, sp.valid_frames))>>
  /\ UNCHANGED sp
  /\ UNCHANGED EgoOthers

InitEgo ==
  /\ ext = "ego"
  /\ fps \in FpsSet
  /\ pc = "open"
  /\ sp = ego0
  /\ ce = <<>> /\ tc = <<>> /\ lc = <<>> /\ bl = <<>> /\ px = <<>>
  /\ obs = obs0
  /\ out = <<>>
  /\ call = <<>> /\ batch = <<>>

NextEgo == EgoNoStart \/ EgoFirstFrame \/ EgoFrame \/ EgoFinish

SpecEgo == InitEgo /\ [][NextEgo]_vars

\* both speed estimators
InitSpeeds == InitEgo \/ InitSpeed
NextSpeeds == NextEgo \/ NextSpeed
SpecSpeeds == InitSpeeds /\ [][NextSpeeds]_vars

----------------------------------------------------------------------------
(* The aggregation steps of the two speed estimators, run twice on the same *)
(* per-frame samples: each run starts from its own empty lists, receives    *)
(* the samples in order and aggregates them.                                *)

MaxAggSamples == 4

\* << speed, confidence >> samples of method_ego_motion (hundredths), and the
\* clipped speeds of calculate_average_speed (km/h, confidence unused)
AggSamples(which) ==
  IF which = "ego" THEN {<<1800, 32>>, <<7200, 62>>, <<600, 8>>, <<200, 62>>}
  ELSE {<<18, 0>>, <<72, 0>>, <<6, 0>>, <<150, 0>>}

\* `speeds = []', `confidences = []', `all_frame_speeds_kmph = []'
KeptList(old) == old

NewList(old) == <<>>

agg0(which, given) ==
  [which |-> which, given |-> given, fed |-> 0, speeds |-> <<>>, confidences |-> <<>>,
   results |-> <<>>]

AggOthers == <<ext, fps, call, batch, ce, tc, lc, bl, px, obs, out>>

AggStart ==
  /\ ext = "agg" /\ pc = "start"
  /\ sp' = [sp EXCEPT !.fed = 0, !.speeds = NewList(@), !.confidences = NewList(@)]
  /\ pc' = "feed"
  /\ UNCHANGED AggOthers

AggFeed ==
  /\ ext = "agg" /\ pc = "feed"
  /\ \E k \in 1..Len(sp.given) :
       /\ k = sp.fed + 1
       /\ sp' = [sp EXCEPT !.fed = k, !.speeds = Append(@, sp.given[k][1]),
                           !.confidences = Append(@, sp.given[k][2])]
  /\ pc' = pc
  /\ UNCHANGED AggOthers

AggReturn ==
  /\ ext = "agg" /\ pc = "feed"
  /\ sp.fed = Len(sp.given)
  /\ LET r == IF sp.which = "ego"
              THEN EgoAggregate(sp.speeds, sp.confidences, Len(sp.speeds))
              ELSE << AverageSpeed(sp.speeds), <<0, 1>> >>
     IN  sp' = [sp EXCEPT !.results = Append(@, r)]
  /\ pc' = IF Len(sp.results) = 0 THEN "start" ELSE "done"
  /\ UNCHANGED AggOthers

InitAgg ==
  /\ ext = "agg"
  /\ fps = 30
  /\ pc = "start"
  /\ \E which \in {"ego", "std"}, n \in 0..MaxAggSamples :
       sp \in {agg0(which, given) : given \in [1..n -> AggSamples(which)]}
  /\ ce = <<>> /\ tc = <<>> /\ lc = <<>> /\ bl = <<>> /\ px = <<>>
  /\ obs = <<>>
  /\ out = <<>>
  /\ call = <<>> /\ batch = <<>>

NextAgg == AggStart \/ AggFeed \/ AggReturn

SpecAgg == InitAgg /\ [][NextAgg]_vars

----------------------------------------------------------------------------
(* calculate_driving_score and compute_safety_violation *)

MaxEncounters == 13
MaxViolations == 3
MaxLaneChanges == 37

ENCOUNTER_DEDUCTION == 8
TRAFFIC_DEDUCTION == 40
BUS_LANE_DEDUCTION == 30

\* lane-change counts: the small ones and those around 200, where the efficiency
\* score reaches 0
LaneChangeInputs == 0..MaxLaneChanges \cup {199, 200, 201, 300}

MetricsInputs ==
  [close_encounters : 0..MaxEncounters, traffic_violations : 0..MaxViolations,
   bus_lane_violations : 0..MaxViolations, lane_changes : LaneChangeInputs]

\* the three sub-scores before rounding: safety and compliance are integers,
\* efficiency = max(0, 100 - lane_changes * 0.5) is kept in halves
SafetyScore(metrics) == Max(0, 100 - metrics.close_encounters * ENCOUNTER_DEDUCTION)

ComplianceScore(metrics) ==
  Max(0, 100 - metrics.traffic_violations * TRAFFIC_DEDUCTION
             - metrics.bus_lane_violations * BUS_LANE_DEDUCTION)

EfficiencyHalves(metrics) == Max(0, 200 - metrics.lane_changes)

\* overall_score = safety * 0.5 + compliance * 0.3 + efficiency * 0.2, in twentieths
OverallTwentieths(metrics) ==
  10 * SafetyScore(metrics) + 6 * ComplianceScore(metrics) + 2 * EfficiencyHalves(metrics)

\* int() in place of round()
CalculateDrivingScoreTruncated(metrics) ==
  [safety_score |-> SafetyScore(metrics),
   compliance_score |-> ComplianceScore(metrics),
   efficiency_score |-> EfficiencyHalves(metrics) \div 2,
   overall_driving_score |-> OverallTwentieths(metrics) \div 20]

\* round() rounds half to even
CalculateDrivingScore(metrics) ==
  [safety_score |-> SafetyScore(metrics),
   compliance_score |-> ComplianceScore(metrics),
   efficiency_score |-> RoundHalfEven(EfficiencyHalves(metrics), 2),
   overall_driving_score |-> RoundHalfEven(OverallTwentieths(metrics), 20)]

\* the older count, with close encounters as a third kind of violation
ComputeSafetyViolationWithEncounters(traffic_windows, bus_ranges, close_count) ==
  (IF Len(traffic_windows) > 0 THEN 1 ELSE 0) + (IF Len(bus_ranges) > 0 THEN 1 ELSE 0)
    + (IF close_count > 0 THEN 1 ELSE 0)

ComputeSafetyViolation(traffic_windows, bus_ranges, close_count) ==
  LET tv == IF Len(traffic_windows) > 0 THEN 1 ELSE 0
      ilu == IF Len(bus_ranges) > 0 THEN 1 ELSE 0
  IN  tv + ilu

\* lists of windows, times in centiseconds
WindowLists ==
  {<<>>, <<[start_time |-> 100, end_time |-> 250]>>,
   <<[start_time |-> 100, end_time |-> 250], [start_time |-> 900, end_time |-> 1200]>>}

ScoreOthers == <<ext, fps, ce, tc, lc, bl, px, sp, obs, batch>>

\* scores = calculate_driving_score(metrics)
ScoreCall ==
  /\ ext = "calculate_driving_score" /\ pc = "entry"
  /\ out' = <<CalculateDrivingScore(call.metrics)>>
  /\ pc' = "done"
  /\ UNCHANGED call
  /\ UNCHANGED ScoreOthers

\* compute_safety_violation called with the same windows and any close_count;
\* call.results keeps << close_count, value returned >> of each call
SafetyViolationCall ==
  /\ ext = "compute_safety_violation" /\ pc = "entry"
  /\ Len(call.results) < 2
  /\ \E close_count \in 0..MaxEncounters :
       LET v == ComputeSafetyViolation(call.traffic_windows, call.bus_ranges, close_count)
       IN  /\ call' = [call EXCEPT !.results = Append(@, <<close_count, v>>)]
           /\ out' = <<v>>
  /\ pc' = pc
  /\ UNCHANGED ScoreOthers

InitScore ==
  /\ \/ /\ ext = "calculate_driving_score"
        /\ call \in [metrics : MetricsInputs]
     \/ /\ ext = "compute_safety_violation"
        /\ call \in [traffic_windows : WindowLists, bus_ranges : WindowLists, results : {<<>>}]
  /\ fps = 30
  /\ pc = "entry"
  /\ ce = <<>> /\ tc = <<>> /\ lc = <<>> /\ bl = <<>> /\ px = <<>> /\ sp = <<>>
  /\ obs = <<>>
  /\ out = <<>>
  /\ batch = <<>>

NextScore == ScoreCall \/ SafetyViolationCall

SpecScore == InitScore /\ [][NextScore]_vars

----------------------------------------------------------------------------
(* EnhancedTrafficDetector: detect_traffic_lights on one detector object,   *)
(* called frame after frame.  The YOLO path is switched off by _init_yolo,  *)
(* so the detections of a frame are those of _hsv_detection, passed through *)
(* _temporal_filtering.  A detection is << x, y, w, h >> in pixels.         *)

MaxTrafficCalls == 5
MaxTrafficLongCalls == 12

MAX_HISTORY == 10            \* self.max_history = 10
MIN_HISTORY == 3             \* `if len(self.recent_detections) < 3'
HISTORY_LOOK == 3            \* self.recent_detections[-3:]
HISTORY_COUNT == 2           \* `return count >= 2'
THRESHOLD == 30              \* threshold: int = 30

Colors == {"red", "amber", "green"}

NoLights == [red |-> <<>>, amber |-> <<>>, green |-> <<>>]

\* what _hsv_detection finds in a frame: nothing, a red light, a red light 20
\* and 25 pixels away from it, one 30 pixels away, a green light at the same
\* place, two red lights
TrafficInputs ==
  { NoLights,
    [NoLights EXCEPT !.red = <<<<100, 100, 10, 20>>>>],
    [NoLights EXCEPT !.red = <<<<120, 125, 10, 20>>>>],
    [NoLights EXCEPT !.red = <<<<130, 100, 10, 20>>>>],
    [NoLights EXCEPT !.green = <<<<100, 100, 10, 20>>>>],
    [NoLights EXCEPT !.red = <<<<100, 100, 10, 20>>, <<400, 60, 10, 20>>>>] }

TrafficLongInputs == { NoLights, [NoLights EXCEPT !.red = <<<<100, 100, 10, 20>>>>] }

TrafficScans == {"traffic", "traffic_long"}
TrafficInputsOf(e) == IF e = "traffic" THEN TrafficInputs ELSE TrafficLongInputs
TrafficCallsOf(e) == IF e = "traffic" THEN MaxTrafficCalls ELSE MaxTrafficLongCalls

\* abs(x - hx) < threshold and abs(y - hy) < threshold
CloseTo(detection, hist_det) ==
  /\ Abs(detection[1] - hist_det[1]) < THRESHOLD
  /\ Abs(detection[2] - hist_det[2]) < THRESHOLD

\* a detection counts as soon as one recent frame holds a similar one
ExistsInHistoryOnce(recent_detections, detection, color) ==
  \E k \in 1..Len(recent_detections) :
    \E j \in 1..Len(recent_detections[k][color]) :
      CloseTo(detection, recent_detections[k][color][j])

\* _exists_in_history: the number of the last three frames holding a similar
\* detection of the colour is at least two
ExistsInHistory(recent_detections, detection, color) ==
  LET last == LastN(recent_detections, HISTORY_LOOK)
      count == Cardinality({k \in 1..Len(last) :
                  \E j \in 1..Len(last[k][color]) : CloseTo(detection, last[k][color][j])})
  IN  count >= HISTORY_COUNT

\* _temporal_filtering: << recent_detections afterwards, detections returned >>
TemporalFiltering(recent_detections, detections) ==
  LET appended == Append(recent_detections, detections)
      recent == IF Len(appended) > MAX_HISTORY THEN Tail(appended) ELSE appended
      filtered == [color \in Colors |->
                     SelectIdx(detections[color],
                               {j \in 1..Len(detections[color]) :
                                  ExistsInHistory(recent, detections[color][j], color)})]
  IN  IF Len(recent) < MIN_HISTORY THEN <<recent, detections>>
      ELSE <<recent, filtered>>

detector0 == [recent_detections |-> <<>>, calls |-> 0, detections |-> NoLights]

TrafficOthers == <<ext, fps, pc, ce, tc, lc, bl, px, sp, obs, batch>>

\* one call of detect_traffic_lights; call.detections keeps what _hsv_detection
\* found in the frame
DetectTrafficLights ==
  /\ ext \in TrafficScans
  /\ call.calls < TrafficCallsOf(ext)
  /\ \E hsv_detections \in TrafficInputsOf(ext) :
       LET r == TemporalFiltering(call.recent_detections, hsv_detections)
       IN  /\ call' = [recent_detections |-> r[1], calls |-> call.calls + 1,
                       detections |-> hsv_detections]
           /\ out' = <<r[2]>>
  /\ UNCHANGED TrafficOthers

InitTraffic ==
  /\ ext \in TrafficScans
  /\ fps = 30
  /\ pc = "ready"
  /\ call = detector0
  /\ ce = <<>> /\ tc = <<>> /\ lc = <<>> /\ bl = <<>> /\ px = <<>> /\ sp = <<>>
  /\ obs = <<>>
  /\ out = <<>>
  /\ batch = <<>>

NextTraffic == DetectTrafficLights

SpecTraffic == InitTraffic /\ [][NextTraffic]_vars

----------------------------------------------------------------------------
(* analyze_video_single.py run as two processes at once, each on its own    *)
(* video.  The processes share merged_output_analysis.json; every process   *)
(* has its own merged_data.  The file is a record: whether it exists, and   *)
(* its text as the set of video names whose entries it holds, or "invalid"  *)
(* when the text is not a JSON document (empty after open(..., 'w'), or the *)
(* bytes of two writers laid over one another).                             *)

Procs == {1, 2}

Other(p) == 3 - p

\* sys.argv of the process
VideoOf(p) == IF p = 1 THEN "a.mp4" ELSE "b.mp4"

NoFile == [exists |-> FALSE, valid |-> FALSE, empty |-> TRUE, data |-> {}]

JsonFile(names) == [exists |-> TRUE, valid |-> TRUE, empty |-> FALSE, data |-> names]

\* what the merged file is before the two processes start
MergedBefore == {NoFile, JsonFile({}), JsonFile({"old.mp4"}), JsonFile({"old.mp4", "a.mp4"})}

proc0 == [at |-> "analyze", merged_data |-> {}, exit |-> <<>>]

single0(file) == [file |-> file, before |-> file.data, proc |-> [p \in Procs |-> proc0]]

\* merged_data = json.load(f) if the file exists, else {}; a text that is not a
\* JSON document raises json.JSONDecodeError
LoadMerged(file) ==
  IF ~file.exists THEN [raised |-> FALSE, merged_data |-> {}]
  ELSE IF file.valid THEN [raised |-> FALSE, merged_data |-> file.data]
  ELSE [raised |-> TRUE, merged_data |-> {}]

SingleOthers == <<ext, fps, pc, ce, tc, lc, bl, px, sp, obs, out, call>>

\* result = analyze_video(...) and the individual <name>_analysis.json, a file
\* of the process's own; an exception leads to sys.exit(1)
SingleAnalyze(p) ==
  /\ ext = "single" /\ batch.proc[p].at = "analyze"
  /\ \E ok \in BOOLEAN :
       batch' = [batch EXCEPT !.proc[p] =
                   IF ok THEN [@ EXCEPT !.at = "read"]
                   ELSE [@ EXCEPT !.at = "exited", !.exit = <<1>>]]
  /\ UNCHANGED SingleOthers

\* lines 75-81: read the merged file and set the process's own entry
SingleRead(p) ==
  /\ ext = "single" /\ batch.proc[p].at = "read"
  /\ LET r == LoadMerged(batch.file)
     IN  batch' = [batch EXCEPT !.proc[p] =
                     IF r.raised THEN [@ EXCEPT !.at = "exited", !.exit = <<1>>]
                     ELSE [@ EXCEPT !.at = "open_w",
                                    !.merged_data = r.merged_data \cup {VideoOf(p)}]]
  /\ UNCHANGED SingleOthers

\* line 83: open(merged_output_file, 'w') creates or truncates the file
SingleOpenWrite(p) ==
  /\ ext = "single" /\ batch.proc[p].at = "open_w"
  /\ batch' = [batch EXCEPT !.proc[p].at = "dump",
                            !.file = [exists |-> TRUE, valid |-> FALSE, empty |-> TRUE,
                                      data |-> {}]]
  /\ UNCHANGED SingleOthers

\* lines 84-103: json.dump writes from offset 0 of the process's handle and the
\* process exits with 0.  When the other process wrote after this one opened
\* the file, the bytes are laid over the other's text: the result is this
\* process's document, or no JSON document when the other's text is longer
SingleDump(p) ==
  /\ ext = "single" /\ batch.proc[p].at = "dump"
  /\ \E clean \in (IF batch.file.empty THEN {TRUE} ELSE BOOLEAN) :
       batch' = [batch EXCEPT !.proc[p] = [@ EXCEPT !.at = "exited", !.exit = <<0>>],
                              !.file = IF clean THEN JsonFile(batch.proc[p].merged_data)
                                       ELSE [exists |-> TRUE, valid |-> FALSE,
                                             empty |-> FALSE, data |-> {}]]
  /\ UNCHANGED SingleOthers

InitSingle ==
  /\ ext = "single"
  /\ fps = 30
  /\ pc = "run"
  /\ batch \in {single0(file) : file \in MergedBefore}
  /\ ce = <<>> /\ tc = <<>> /\ lc = <<>> /\ bl = <<>> /\ px = <<>> /\ sp = <<>>
  /\ obs = <<>>
  /\ out = <<>>
  /\ call = <<>>

NextSingle ==
  \E p \in Procs : SingleAnalyze(p) \/ SingleRead(p) \/ SingleOpenWrite(p) \/ SingleDump(p)

SpecSingle == InitSingle /\ [][NextSingle]_vars

----------------------------------------------------------------------------
(* run_traffic_signal_summary, and what analyze_video derives from its      *)
(* result: safety_violation, the metrics and the driving scores.  A frame   *)
(* is what it shows of a traffic light; call.lights lists the frames read.  *)

MaxSummaryFrames == 4

LightInputs == {"none", "red", "green"}

\* the fake window that used to be added to every video
PostprocessSmootherFake(dur_sec, out_json) ==
  [violations |-> out_json.violations,
   traffic_violation_windows |-> <<[start_time |-> 7540, end_time |-> 7780]>>,
   violation |-> TRUE]

\* _postprocess_smoother: setdefault("traffic_violation_windows", []) and
\* violation = len(windows) > 0
PostprocessSmoother(dur_sec, out_json) ==
  LET windows == IF "traffic_violation_windows" \in DOMAIN out_json
                 THEN out_json.traffic_violation_windows ELSE <<>>
  IN  [violations |-> out_json.violations,
       traffic_violation_windows |-> windows,
       violation |-> Len(windows) > 0]

\* what run_bus_lane_color, the close-encounter detector and
\* run_lane_change_count return for the video
OtherResults ==
  [bus_color : {[violation_detected |-> FALSE, violation_ranges |-> <<>>],
                [violation_detected |-> TRUE,
                 violation_ranges |-> <<[start_time |-> 100, end_time |-> 250]>>]},
   event_count : {0, 1, MaxEncounters},
   turn_count : {0, 3}]

summary0 == [idx |-> 0, lights |-> <<>>, violations |-> <<>>]

SummaryOthers == <<ext, fps, ce, tc, lc, bl, px, sp, obs, batch>>

\* `ok, first = cap.read()': without a first frame dur_sec = 0.0 and the result
\* is built at once
SummaryFirstFrame ==
  /\ ext = "traffic_summary" /\ pc = "open"
  /\ \/ /\ \E light \in LightInputs : call' = [call EXCEPT !.lights = Append(@, light)]
        /\ pc' = "scan"
        /\ out' = out
     \/ /\ call' = call
        /\ pc' = "summary"
        /\ out' = <<PostprocessSmoother(0, [violations |-> call.violations])>>
  /\ UNCHANGED SummaryOthers

\* one pass of the loop: the frame is read and counted, nothing is detected
SummaryFrame ==
  /\ ext = "traffic_summary" /\ pc = "scan"
  /\ call.idx < MaxSummaryFrames
  /\ \E light \in LightInputs :
       call' = [call EXCEPT !.idx = @ + 1, !.lights = Append(@, light)]
  /\ UNCHANGED <<pc, out>>
  /\ UNCHANGED SummaryOthers

\* end of the stream: out = {"violations": violations}, then _postprocess_smoother
SummaryFinish ==
  /\ ext = "traffic_summary" /\ pc = "scan"
  /\ out' = <<PostprocessSmoother(call.idx + 1, [violations |-> call.violations])>>
  /\ pc' = "summary"
  /\ UNCHANGED call
  /\ UNCHANGED SummaryOthers

\* analyze_video, lines 833-862: safety_violation, metrics and scores
AnalyzeScores ==
  /\ ext = "traffic_summary" /\ pc = "summary"
  /\ \E o \in OtherResults :
       LET traffic_sig == out[1]
           safety_violation ==
             ComputeSafetyViolation(traffic_sig.traffic_violation_windows,
                                    o.bus_color.violation_ranges, o.event_count)
           metrics == [close_encounters |-> o.event_count,
                       traffic_violations |-> IF traffic_sig.violation THEN 1 ELSE 0,
                       bus_lane_violations |-> IF o.bus_color.violation_detected THEN 1 ELSE 0,
                       lane_changes |-> o.turn_count]
       IN  out' = Append(out, [safety_violation |-> safety_violation, metrics |-> metrics,
                               scores |-> CalculateDrivingScore(metrics)])
  /\ pc' = "scored"
  /\ UNCHANGED call
  /\ UNCHANGED SummaryOthers

InitSummary ==
  /\ ext = "traffic_summary"
  /\ fps = 30
  /\ pc = "open"
  /\ call = summary0
  /\ ce = <<>> /\ tc = <<>> /\ lc = <<>> /\ bl = <<>> /\ px = <<>> /\ sp = <<>>
  /\ obs = <<>>
  /\ out = <<>>
  /\ batch = <<>>

NextSummary == SummaryFirstFrame \/ SummaryFrame \/ SummaryFinish \/ AnalyzeScores

SpecSummary == InitSummary /\ [][NextSummary]_vars

----------------------------------------------------------------------------
(* Properties *)

\* C1: in every hysteresis machine (close-encounter band machine, lane-change
\* machine, bus-lane colour machine, turn machine) two closures never follow one
\* another without an opening in between, the closed events never outnumber the
\* opened ones, and an event is emitted only from the active state.
C1_Hysteresis ==
  /\ ~obs.doubleClose
  /\ ~obs.idleEmit
  /\ obs.closed <= obs.opened

C1_Witness == pc = "done" /\ obs.opened = 2 /\ obs.closed = 2

\* C2: every close encounter returned by run_close_encounters (after the filter
\* and the merge) and by EnhancedProximityDetector.detect_encounters has
\* start_time <= peak_time <= end_time.
C2_PeakInside ==
  (pc = "done" /\ ext \in {"ce", "prox"}) =>
    \A k \in 1..Len(out[1].close_encounters) :
      LET e == out[1].close_encounters[k]
      IN  e.start_time <= e.peak_time /\ e.peak_time <= e.end_time

\* a merged event whose peak lies strictly inside it
C2_Witness ==
  /\ pc = "done" /\ ext = "ce" /\ out[1].event_count > 0
  /\ Len(out[1].final) > Len(out[1].close_encounters)
  /\ \E k \in 1..Len(out[1].close_encounters) :
       LET e == out[1].close_encounters[k]
       IN  e.start_time < e.peak_time /\ e.peak_time < e.end_time

\* C3: the merge pass of run_close_encounters joins kept events (final) that
\* follow one another with a gap of at most MERGE_GAP into exactly one event: it
\* starts where the first of them starts, ends where the last of them ends, has
\* the greatest peak_score among them, and peak_time, where and box height come
\* from the event with that peak (the earliest one on equal peaks).  Events
\* further apart stay separate.
C3_Merge ==
  (pc = "done" /\ ext = "ce" /\ "final" \in DOMAIN out[1]) =>
    LET final == out[1].final
        merged == out[1].close_encounters
        n == Len(final)
        breaks == {k \in 1..(n - 1) :
                     final[k + 1].start_time - final[k].end_time > MERGE_GAP}
        grp(k) == 1 + Cardinality({b \in breaks : b < k})
    IN  /\ Len(merged) = IF n = 0 THEN 0 ELSE 1 + Cardinality(breaks)
        /\ \A j \in 1..Len(merged) :
             LET G == {k \in 1..n : grp(k) = j}
                 lo == CHOOSE k \in G : \A x \in G : k <= x
                 hi == CHOOSE k \in G : \A x \in G : x <= k
                 best == CHOOSE k \in G :
                           /\ \A x \in G : final[x].peak_score <= final[k].peak_score
                           /\ \A x \in G : x < k => final[x].peak_score < final[k].peak_score
             IN  merged[j] = [final[best] EXCEPT !.start_time = final[lo].start_time,
                                                 !.end_time = final[hi].end_time]

\* two kept events at most MERGE_GAP apart, the later one with the higher peak,
\* returned as one
C3_Witness ==
  /\ pc = "done" /\ ext = "ce" /\ "final" \in DOMAIN out[1]
  /\ Len(out[1].final) = 2 /\ Len(out[1].close_encounters) = 1
  /\ out[1].final[2].peak_score > out[1].final[1].peak_score
  /\ out[1].final[2].start_time > out[1].final[1].end_time

\* C4: every returned event lasts at least its modality's minimum: 0.2 s for a
\* close encounter of either extractor, 1.0 s for a bus-lane range.
C4_MinDuration ==
  pc = "done" =>
    /\ ext \in {"ce", "prox"} =>
         \A k \in 1..Len(out[1].close_encounters) :
           out[1].close_encounters[k].end_time - out[1].close_encounters[k].start_time
             >= CE_MIN_DUR
    /\ ext = "bus" =>
         \A k \in 1..Len(out[1].violation_ranges) :
           out[1].violation_ranges[k].end_time - out[1].violation_ranges[k].start_time
             >= 100 * MIN_DURATION_SEC

\* C5: in the returned close-encounter list of either extractor, each event
\* starts more than MERGE_GAP after the previous one ends.
C5_Separated ==
  (pc = "done" /\ ext \in {"ce", "prox"}) =>
    \A k \in 1..(Len(out[1].close_encounters) - 1) :
      out[1].close_encounters[k + 1].start_time - out[1].close_encounters[k].end_time
        > MERGE_GAP

\* C6: the machine with thresholds 0.18 and 0.10 over a zero baseline, the box
\* gate open, fed the fused scores 0.05, 0.20, 0.25, 0.08, 0.05 at the times
\* 0, 1, 2, 3, 4 s, yields exactly one event, from 1 s to 3 s with its peak of
\* 0.25 at 2 s, and the filter and the merge return it unchanged.
C6_Scenario ==
  (/\ pc = "done" /\ ext = "ce_machine"
   /\ ce.fed = <<50, 200, 250, 80, 50>>
   /\ ce.gate = <<TRUE, TRUE, TRUE, TRUE, TRUE>>) =>
    LET e == [ start_time |-> 100, peak_time |-> 200, peak_score |-> 250,
               end_time |-> 300, where |-> WHERE[CMBox.peak_band],
               max_box_height_norm |-> CMBox.hbox ]
    IN  /\ ce.events = <<e>>
        /\ out[1].final = <<e>>
        /\ out[1].close_encounters = <<e>>
        /\ out[1].event_count = 1

C6_Witness ==
  /\ pc = "done" /\ ext = "ce_machine"
  /\ ce.fed = <<50, 200, 250, 80, 50>>
  /\ ce.gate = <<TRUE, TRUE, TRUE, TRUE, TRUE>>
  /\ out[1].event_count = 1

\* C7: a frame of run_bus_lane_color opens a window exactly when no window is
\* open and the buffer holds BUFFER_SIZE_FRAMES flags that are all true; it then
\* opens exactly one, starting at that frame.  With a false flag among the last
\* BUFFER_SIZE_FRAMES, with fewer frames seen, or with a window already open,
\* none is opened.
C7_UnanimousOpen ==
  [][ (ext = "bus" /\ bl'.frame_idx = bl.frame_idx + 1) =>
        LET flags == bl'.buffer
            unanimous == /\ Len(flags) = BUFFER_SIZE_FRAMES
                         /\ \A k \in 1..Len(flags) : flags[k]
        IN  /\ Len(flags) = Min(bl'.frame_idx, BUFFER_SIZE_FRAMES)
            /\ Len(bl'.ranges) =
                 Len(bl.ranges) + (IF ~bl.violation_active /\ unanimous THEN 1 ELSE 0)
            /\ Len(bl'.ranges) > Len(bl.ranges) =>
                 bl'.ranges[Len(bl'.ranges)].start_time = bl'.frame_idx ]_vars

\* the window is open two frames after the run of true flags opened it, and it is
\* still the only one
C7_Witness ==
  /\ ext = "bus" /\ pc = "scan"
  /\ bl.frame_idx = BUFFER_SIZE_FRAMES + 2
  /\ bl.chg = 0 /\ bl.violation_active
  /\ Len(bl.ranges) = 1 /\ bl.ranges[1].start_time = BUFFER_SIZE_FRAMES

\* C8: a track whose estimated distance is 50 m at every sample is never marked
\* dangerous, so it yields no close encounter.
C8_FarTrack ==
  ext = "prox" =>
    \A id \in DOMAIN px.tracks :
      (\A k \in 1..Len(px.tracks[id].history) :
          px.tracks[id].history[k].distance = 50 * 1000)
        => /\ ~px.tracks[id].is_dangerous
           /\ pc = "done" => out[1].event_count = 0

\* a frontal track of enough samples, all at 50 m, at the end of the scan
C8_Witness ==
  /\ ext = "prox" /\ pc = "done"
  /\ \E id \in DOMAIN px.tracks :
       /\ Len(px.tracks[id].history) >= MIN_TRACK_FRAMES
       /\ \A k \in 1..Len(px.tracks[id].history) :
            /\ px.tracks[id].history[k].distance = 50 * 1000
            /\ px.tracks[id].history[k].is_frontal

\* C9: when the stream ends, no event of a hysteresis machine is left open: every
\* event opened has been closed, and the event the end of the stream closed ends
\* at the last sample time (close encounters) or the last frame (bus lane).
C9_ForceClose ==
  pc = "done" =>
    /\ obs.closed = obs.opened
    /\ (ext = "ce" /\ ce.state = "in_event") =>
         ce.events[Len(ce.events)].end_time = Round2(ce.times[Len(ce.times)], fps)
    /\ (ext = "bus" /\ bl.violation_active) =>
         bl.ranges[Len(bl.ranges)].end_time = <<bl.frame_idx>>

\* C10: the sampling step of a scan is at least 1, it is round(fps / target) when
\* the target rate does not exceed the native rate, and the frames processed are
\* exactly those whose index is a multiple of it.
C10_Step ==
  /\ (ext = "ce" /\ pc # "open") =>
       LET step == RoundHalfEven(fps, PROC_HZ_CE)
       IN  /\ CEStep >= 1
           /\ PROC_HZ_CE <= fps => CEStep = step
           /\ ce.times = [k \in 1..(ce.i \div CEStep) |-> k * CEStep]
  /\ (ext = "speed" /\ pc # "open") =>
       LET step == RoundHalfEven(fps, SPEED_HZ)
           used == IF SPEED_HZ <= fps THEN step ELSE SampleRate(fps)
       IN  /\ SampleRate(fps) >= 1
           /\ sp.sampled_at = [k \in 1..(sp.frame_count \div used) |-> k * used]

\* C11: an entry point whose video cannot be opened raises to its caller; it
\* returns no result (no zero speed, zero counts or "no violation")
C11_OpenFailureRaises ==
  (ext \in Entries /\ pc = "done" /\ call.exit = "open_failed")
    => (call.raised # "" /\ call.result = <<>>)

CloseEncounterEntries == {"run_close_encounters", "detect_close_encounters_enhanced"}

\* C12: without the detection library both close-encounter entry points never
\* open the video and never raise, and what they return has close_encounters = []
\* and event_count = 0
C12_DegradedResult ==
  (ext \in CloseEncounterEntries /\ ~call.has_yolo)
    => /\ call.cap = "none"
       /\ call.raised = ""
       /\ pc = "done" => /\ Len(call.result) = 1
                         /\ call.result[1].close_encounters = <<>>
                         /\ call.result[1].event_count = 0

C12_Witness ==
  /\ ext = "detect_close_encounters_enhanced" /\ ~call.has_yolo /\ ~call.openable
  /\ pc = "done" /\ call.exit = "no_capability"

\* C14: whatever way a call ends (end of stream, early return, exception), the
\* handle it opened is not left open
C14_HandleReleased ==
  (ext \in Entries /\ pc = "done") => call.cap # "open"

\* the entries all_results holds for a file name
EntriesFor(name) ==
  {k \in 1..Len(batch.all_results) : batch.all_results[k][1] = name}

IsFailureRecord(entry) ==
  /\ DOMAIN entry = {"error", "status"}
  /\ entry.status = "failed" /\ entry.error # ""

\* every video the loop has passed has exactly one entry: the analysis result if
\* analyze_video returned, a failure record with the error text if it raised, and
\* a failure record if the video cannot be opened; the merged file holds all_results
BatchEntries ==
  ext = "batch" =>
    /\ Len(batch.all_results) = batch.i - 1
    /\ \A k \in 1..Len(batch.video_files) :
         k < batch.i =>
           LET v == batch.video_files[k]
               a == AnalyzeVideo(v, batch.flags)
           IN  /\ Cardinality(EntriesFor(v.name)) = 1
               /\ \A j \in EntriesFor(v.name) :
                    LET entry == batch.all_results[j][2]
                    IN  /\ a.raised = "" => entry = a.result[1] /\ ~IsFailureRecord(entry)
                        /\ a.raised # "" => IsFailureRecord(entry) /\ entry.error = a.raised
                        /\ ~v.openable => IsFailureRecord(entry)
    /\ pc \in {"write", "done"} /\ batch.video_files # <<>> =>
         /\ batch.i = Len(batch.video_files) + 1
         /\ batch.merged # <<>> => batch.merged[1] = batch.all_results

C16_NoSignal ==
  /\ (ext = "ego" /\ pc = "done" /\ sp.valid_frames < MIN_VALID_FRAMES)
       => /\ Len(out) = 1
          /\ out[1].average_speed_kmh = 0 /\ out[1].confidence = 0
          /\ ~out[1].successful
  /\ (ext = "speed" /\ pc = "done" /\ sp.all_frame_speeds_kmph = <<>>)
       => Len(out) = 1 /\ out[1].avg_speed[1] = 0

C16_Witness ==
  /\ ext = "ego" /\ pc = "done"
  /\ sp.frame_count >= 2 * EGO_STRIDE /\ sp.speeds = <<>>
  /\ out[1].average_speed_kmh = 0 /\ ~out[1].successful

\* C17: for all metric counts the returned safety and compliance scores are
\* max(0, 100 - 8 * close_encounters) and max(0, 100 - 40 * traffic_violations
\* - 30 * bus_lane_violations), efficiency and overall are max(0, 100 - 0.5 *
\* lane_changes) and 0.5 safety + 0.3 compliance + 0.2 efficiency rounded to a
\* nearest integer, all four lie in 0..100, and (13, 1, 1, 37) gives 0, 30, 82, 25
C17_Scores ==
  (ext = "calculate_driving_score" /\ pc = "done") =>
    LET m == call.metrics
        r == out[1]
        safety == IF 8 * m.close_encounters >= 100 THEN 0 ELSE 100 - 8 * m.close_encounters
        penalty == 40 * m.traffic_violations + 30 * m.bus_lane_violations
        compliance == IF penalty >= 100 THEN 0 ELSE 100 - penalty
        \* ten times the efficiency, a hundred times the overall score
        efficiency10 == IF m.lane_changes >= 200 THEN 0 ELSE 1000 - 5 * m.lane_changes
        overall100 == 50 * safety + 30 * compliance + 2 * efficiency10
    IN  /\ r.safety_score = safety
        /\ r.compliance_score = compliance
        /\ Abs(10 * r.efficiency_score - efficiency10) <= 5
        /\ Abs(100 * r.overall_driving_score - overall100) <= 50
        /\ \A f \in DOMAIN r : r[f] \in 0..100
        /\ m = [close_encounters |-> 13, traffic_violations |-> 1,
                bus_lane_violations |-> 1, lane_changes |-> 37]
             => r = [safety_score |-> 0, compliance_score |-> 30,
                     efficiency_score |-> 82, overall_driving_score |-> 25]

C17_Witness ==
  /\ ext = "calculate_driving_score" /\ pc = "done"
  /\ call.metrics = [close_encounters |-> 13, traffic_violations |-> 1,
                     bus_lane_violations |-> 1, lane_changes |-> 37]
  /\ out[1].overall_driving_score = 25

\* C18: compute_safety_violation returns (1 if there is a traffic window) + (1 if
\* there is a bus-lane range), a value in {0, 1, 2}, and two calls with the same
\* windows and ranges return the same value whatever their close_count
C18_RuleViolationsOnly ==
  ext = "compute_safety_violation" =>
    /\ \A k \in 1..Len(call.results) :
         /\ call.results[k][2] \in {0, 1, 2}
         /\ call.results[k][2] = (IF call.traffic_windows # <<>> THEN 1 ELSE 0)
                                 + (IF call.bus_ranges # <<>> THEN 1 ELSE 0)
    /\ \A j, k \in 1..Len(call.results) : call.results[j][2] = call.results[k][2]

C18_Witness ==
  /\ ext = "compute_safety_violation" /\ Len(call.results) = 2
  /\ call.traffic_windows # <<>> /\ call.bus_ranges = <<>>
  /\ call.results[1][1] = 0 /\ call.results[2][1] = MaxEncounters
  /\ call.results[2][2] = 1

\* what the state machine of run_close_encounters is given at sampled frame i
\* when the frame yields inp: the fused score, its increase, the thresholds
\* (score units) and the box-height gate of the peak band
CEGates(c, i, inp) ==
  LET ema == EmaNext(c, inp)
      bases == [b \in Bands |-> LastN(Append(c.bases[b], ema[b]), BASE_LEN)]
      medians == [b \in Bands |-> IF Len(bases[b]) >= 3 THEN Median(bases[b]) ELSE 0]
      fused == Max3(ema)
      fused_prev == IF c.times = <<>> THEN fused
                    ELSE Max3([b \in Bands |-> c.vals[b][Len(c.vals[b])]])
  IN  [fused |-> fused, d1 |-> fused - fused_prev,
       box_ok |-> 10 * inp.hmax[ArgMax3(ema)] >= 9 * MIN_BOX_H,
       enter_thr |-> Median(medians) + ENTER_K * UNIT,
       exit_thr |-> Median(medians) + EXIT_K * UNIT]

\* a step of the scan that processes a sampled frame
CESampledStep ==
  /\ ext = "ce" /\ pc = "scan" /\ pc' = "scan"
  /\ ce'.i = ce.i + 1 /\ ce'.i % CEStep = 0

\* C19: at a sampled frame an idle machine becomes active exactly when the fused
\* score exceeds the enter threshold, has risen by at least DERIV_MIN since the
\* previous sample and the peak band's box height passes its gate; otherwise it
\* stays idle with no event, and it stays idle at the first sampled frame
C19_EnterGate ==
  [][ (CESampledStep /\ ce.state = "idle") =>
        \A inp \in CEInputs :
          ce' = CESample(ce, ce'.i, inp) =>
            LET g == CEGates(ce, ce'.i, inp)
            IN  /\ ce'.state = "in_event" <=>
                     (g.fused > g.enter_thr /\ g.d1 >= DERIV_MIN * UNIT /\ g.box_ok)
                /\ ce'.state = "idle" => (ce'.cur_event = <<>> /\ ce'.events = ce.events)
                /\ ce.times = <<>> => ce'.state = "idle" ]_vars

\* close encounters: at a sampled frame an active machine goes idle exactly when
\* the fused score is at or below the exit threshold
CEExitGate ==
  (CESampledStep /\ ce.state = "in_event") =>
    LET medians == [b \in Bands |-> IF Len(ce'.bases[b]) >= 3 THEN Median(ce'.bases[b]) ELSE 0]
        exit_thr == Median(medians) + EXIT_K * UNIT
    IN  ce'.state = "idle" <=> Max3(ce'.ema) <= exit_thr

\* lane changes: at a sampled frame an open episode ends exactly when the smoothed
\* score is at or below the exit threshold
LCExitGate ==
  (ext = "lc" /\ pc = "scan" /\ pc' = "scan" /\ lc'.samples = lc.samples + 1 /\ lc.turning) =>
    (~lc'.turning <=> Abs(lc'.ema) <= EXIT_THR_LC * UNIT_LC)

\* the states of the turn machine after each iteration of its loop
TurnTrace(angles_deg, times) ==
  LET a == MedianFilter(angles_deg, SMOOTH_WIN)
      heading == CumSum(a)
      F[i \in 0..Len(times)] ==
        IF i = 0 THEN <<tm0>>
        ELSE LET prev == F[i - 1]
             IN  Append(prev, TurnMachine(prev[i], i, a, heading, times))
  IN  F[Len(times)]

\* turns: an iteration ends a turn only if the yaw rate was below its threshold or
\* against the turn in that iteration and the RELEASE_FRAMES - 1 before it
TurnExitGate ==
  (ext = "turn" /\ pc = "scan" /\ pc' = "done" /\ Len(tc.angles_deg) >= 3) =>
    LET a == MedianFilter(tc.angles_deg, SMOOTH_WIN)
        tr == TurnTrace(tc.angles_deg, tc.times)
        Lapse(j, direction) ==
          ~TurningNow(a[j]) \/ direction # (IF a[j] >= 0 THEN "right" ELSE "left")
    IN  \A i \in 1..Len(tc.times) :
          (tr[i].state = "turning" /\ tr[i + 1].state = "idle") =>
            /\ i - RELEASE_FRAMES + 1 >= tr[i].start_i[1] + ARM_FRAMES
            /\ \A j \in (i - RELEASE_FRAMES + 1)..i : Lapse(j, tr[i].direction[1])

\* C20: an active event ends at a sample only if the smoothed score is at or below
\* the exit threshold (close encounters, lane changes) or, for turns, the lapse
\* has lasted the whole release window; and in the two threshold machines a score
\* at or below the exit threshold ends the event at that sample
C20_ExitGate == [][CEExitGate /\ LCExitGate /\ TurnExitGate]_vars


\* the fused score of sample k of a scan of run_close_encounters (score units)
CEFusedAt(c, k) == Max3([b \in Bands |-> c.vals[b][k]])

\* the sample of the scan taken at time t (centiseconds)
CESampleAt(c, t) == CHOOSE k \in 1..Len(c.times) : Round2(c.times[k], fps) = t

\* the peak attributes of an event that spans samples ks..ke are those of the
\* earliest sample with the greatest fused score
CEPeakOf(c, e, ks, ke) ==
  LET mx == CHOOSE v \in {CEFusedAt(c, k) : k \in ks..ke} :
              \A k \in ks..ke : CEFusedAt(c, k) <= v
      kp == CHOOSE k \in ks..ke :
              /\ CEFusedAt(c, k) = mx
              /\ \A j \in ks..(k - 1) : CEFusedAt(c, j) < mx
  IN  /\ e.peak_score = RoundHalfEven(mx, UNIT)
      /\ e.peak_time = Round2(c.times[kp], fps)
      /\ e.where = WHERE[ArgMax3([b \in Bands |-> c.vals[b][kp]])]

\* the event the machine holds or has just closed after a sampled step
CEEventAfter(c) == IF c.state = "in_event" THEN c.cur_event[1] ELSE c.events[Len(c.events)]

\* C21: every event closed by the state machine of run_close_encounters has as
\* peak_score the greatest fused score of the samples from its entry to its exit,
\* and its peak_time, where and max_box_height_norm are those of the earliest
\* sample with that score
C21_PeakIsMax ==
  [][ (ext \in CEScans /\ pc = "scan" /\ pc' = "scan" /\ ce'.i = ce.i + 1 /\ ce'.i % CEStep = 0) =>
        /\ \A n \in 1..Len(ce'.events) :
             LET e == ce'.events[n]
             IN  CEPeakOf(ce', e, CESampleAt(ce', e.start_time), CESampleAt(ce', e.end_time))
        /\ (ce.state = "in_event" \/ ce'.state = "in_event") =>
             \A inp \in CEInputsOf(ext) :
               ce' = CESample(ce, ce'.i, inp) =>
                 LET e == CEEventAfter(ce')
                 IN  IF e.peak_time = Round2(ce'.i, fps)
                     THEN e.max_box_height_norm = inp.hmax[ArgMax3(ce'.ema)]
                     ELSE e.max_box_height_norm = ce.cur_event[1].max_box_height_norm ]_vars

\* a closed event whose greatest fused score came after its entry sample and
\* before its exit sample
C21_Witness ==
  /\ ext = "ce" /\ ce.events # <<>>
  /\ LET e == ce.events[1]
     IN  e.start_time < e.peak_time /\ e.peak_time < e.end_time


\* iteration i of the loop of run_turn_count arms a turn / commits one
TurnArmedAt(tr, i) == tr[i].state = "idle" /\ tr[i + 1].state = "turning"
TurnCommittedAt(tr, i) == tr[i].state = "turning" /\ tr[i + 1].state = "idle"

\* the last iteration before i that committed a turn (0 if none did)
TurnLastCommit(tr, i) ==
  LET C == {j \in 1..(i - 1) : TurnCommittedAt(tr, j)}
  IN  IF C = {} THEN 0 ELSE CHOOSE j \in C : \A k \in C : k <= j

\* the yaw rate of a smoothed rotation a is over OMEGA_THRESH_DPS
TurnOverThreshold(a) == Abs(a) * fps > OMEGA_THRESH_DPS * 10 * TurnStep

\* C22: iteration i of run_turn_count arms a turn exactly when the machine is
\* idle and the ARM_FRAMES most recent samples, all later than the last commit,
\* each have a yaw rate over OMEGA_THRESH_DPS; the armed turn starts at sample
\* i - ARM_FRAMES + 1, its direction is the sign of the median yaw rate of those
\* samples, its baseline is the heading at the start sample; two turns are never
\* armed fewer than ARM_FRAMES samples apart
C22_Arming ==
  (ext \in TurnScans /\ pc = "done" /\ Len(tc.angles_deg) >= 3) =>
    LET a == MedianFilter(tc.angles_deg, SMOOTH_WIN)
        heading == CumSum(a)
        tr == TurnTrace(tc.angles_deg, tc.times)
        n == Len(tc.times)
    IN  /\ \A i \in 1..n :
             /\ TurnArmedAt(tr, i) <=>
                  /\ tr[i].state = "idle"
                  /\ i - ARM_FRAMES + 1 > TurnLastCommit(tr, i)
                  /\ \A j \in (i - ARM_FRAMES + 1)..i : TurnOverThreshold(a[j])
             /\ TurnArmedAt(tr, i) =>
                  /\ tr[i + 1].start_i = << i - ARM_FRAMES + 1 >>
                  /\ tr[i + 1].direction =
                       << IF Median(SubSeq(a, i - ARM_FRAMES + 1, i)) >= 0
                          THEN "right" ELSE "left" >>
                  /\ tr[i + 1].start_heading = << heading[i - ARM_FRAMES + 1] >>
        /\ \A i, k \in 1..n :
             (i < k /\ TurnArmedAt(tr, i) /\ TurnArmedAt(tr, k)) => k - i >= ARM_FRAMES


\* iteration j is a lapse of a turn in the given direction: the yaw rate is below
\* its threshold or against the turn
TurnLapse(a, j, direction) ==
  ~TurningNow(a[j]) \/ direction # (IF a[j] >= 0 THEN "right" ELSE "left")

\* the heading has changed by ANGLE_THRESH_DEG in the direction of the turn held
\* in m and MIN_TURN_SEC has passed since its start sample
TurnAngleReached(m, i, heading, times) ==
  /\ (heading[i] - heading[m.start_i[1]]) * (IF m.direction[1] = "right" THEN 1 ELSE -1)
       >= ANGLE_THRESH_DEG * 10
  /\ 10 * (times[i] - times[m.start_i[1]]) >= MIN_TURN_SEC_TENTHS * fps

\* the last RELEASE_FRAMES samples, all later than the arming sample, were lapses
TurnReleased(m, i, a) ==
  /\ i - RELEASE_FRAMES + 1 > m.start_i[1] + ARM_FRAMES - 1
  /\ \A j \in (i - RELEASE_FRAMES + 1)..i : TurnLapse(a, j, m.direction[1])

\* C23: an armed turn of run_turn_count is committed at the first sample where
\* the heading change in its direction is at least ANGLE_THRESH_DEG with at
\* least MIN_TURN_SEC elapsed, or the last RELEASE_FRAMES samples since arming
\* were all lapses; the commit appends one event with the armed direction and
\* returns the machine to idle with empty windows; no other sample adds an
\* event, and turn_count = left + right
C23_Commit ==
  (ext \in TurnScans /\ pc = "done" /\ Len(tc.angles_deg) >= 3) =>
    LET a == MedianFilter(tc.angles_deg, SMOOTH_WIN)
        heading == CumSum(a)
        tr == TurnTrace(tc.angles_deg, tc.times)
        n == Len(tc.times)
    IN  /\ \A i \in 1..n :
             IF tr[i].state = "turning"
             THEN /\ TurnCommittedAt(tr, i) <=>
                       (TurnAngleReached(tr[i], i, heading, tc.times) \/ TurnReleased(tr[i], i, a))
                  /\ IF TurnCommittedAt(tr, i)
                     THEN /\ tr[i + 1].events = Append(tr[i].events, tr[i].direction[1])
                          /\ tr[i + 1].arm = <<>> /\ tr[i + 1].rel = <<>>
                     ELSE tr[i + 1].events = tr[i].events
             ELSE tr[i + 1].events = tr[i].events
        /\ Len(tr[n + 1].events) <= Cardinality({i \in 1..n : TurnArmedAt(tr, i)})
        /\ out[1].turn_count = Len(tr[n + 1].events)
        /\ out[1].turn_count = out[1].left + out[1].right

\* a scan with a turn committed by its release window alone
C23_Witness ==
  /\ ext = "turn" /\ pc = "done" /\ Len(tc.angles_deg) >= 3
  /\ out[1].turn_count >= 1
  /\ LET a == MedianFilter(tc.angles_deg, SMOOTH_WIN)
         heading == CumSum(a)
         tr == TurnTrace(tc.angles_deg, tc.times)
     IN  \E i \in 1..Len(tc.times) :
           /\ TurnCommittedAt(tr, i)
           /\ TurnReleased(tr[i], i, a)
           /\ ~TurnAngleReached(tr[i], i, heading, tc.times)


\* a step of the scan of run_lane_change_count that processes a sampled frame
LCSampledStep ==
  /\ ext = "lc" /\ pc = "scan" /\ pc' = "scan" /\ lc'.samples = lc.samples + 1

\* what the smoothed lane-change score e becomes after a sample whose raw score is 0
LCDecay(e) == e - EMA_ALPHA_NUM * (e \div EMA_ALPHA_DEN)

LCEpisodeEnds == lc.turning /\ (~lc'.turning \/ pc' = "done")

\* C25: run_lane_change_count counts an episode once, when it ends, and only if
\* its active samples divided by the effective sampling rate make at least
\* MIN_TURN_SEC_LC seconds; the count goes to the direction fixed at entry (right
\* if the smoothed score was >= 0, else left); a shorter episode and every other
\* step change no counter; turn_count = left + right
C25_CountedOnce ==
  [][ (ext = "lc" /\ pc = "scan") =>
        /\ IF LCEpisodeEnds
           THEN IF lc.frames_in_turn * LCStep >= MIN_TURN_SEC_LC * fps
                THEN IF lc.turn_dir > 0
                     THEN /\ lc'.right_count = lc.right_count + 1
                          /\ lc'.left_count = lc.left_count
                     ELSE /\ lc'.left_count = lc.left_count + 1
                          /\ lc'.right_count = lc.right_count
                ELSE lc'.right_count = lc.right_count /\ lc'.left_count = lc.left_count
           ELSE lc'.right_count = lc.right_count /\ lc'.left_count = lc.left_count
        /\ (~lc.turning /\ lc'.turning) =>
             /\ lc'.turn_dir = (IF lc'.ema >= 0 THEN 1 ELSE -1)
             /\ lc'.frames_in_turn = 1
        /\ (lc.turning /\ lc'.turning /\ pc' = "scan") =>
             /\ lc'.turn_dir = lc.turn_dir
             /\ lc'.frames_in_turn =
                  lc.frames_in_turn + (IF lc'.samples > lc.samples THEN 1 ELSE 0)
        /\ pc' = "done" =>
             /\ out'[1].left = lc'.left_count /\ out'[1].right = lc'.right_count
             /\ out'[1].turn_count = out'[1].left + out'[1].right ]_vars

\* a scan that counted one lane change to each side
C25_Witness ==
  /\ ext = "lc" /\ pc = "done"
  /\ out[1].left = 1 /\ out[1].right = 1 /\ out[1].turn_count = 2


\* the frames f - BUFFER_SIZE_FRAMES + 1 .. f have all been read and their flags
\* all equal v; the buffer of the scan holds the flags of the last frames read
BusUnanimous(b, v) ==
  /\ Len(b.buffer) = BUFFER_SIZE_FRAMES
  /\ \A k \in 1..BUFFER_SIZE_FRAMES : b.buffer[k] = v

\* C26: a frame of run_bus_lane_color makes the violation active only if the
\* last BUFFER_SIZE_FRAMES flags are all true, inactive only if they are all
\* false, and leaves it unchanged when the buffer is mixed or not yet full; the
\* recorded windows are in increasing time order and do not overlap, and each
\* window closed by a frame spans at least BUFFER_SIZE_FRAMES frames
C26_UnanimousBuffer ==
  [][ (ext \in BusScans /\ pc = "scan" /\ pc' = "scan") =>
        /\ (~bl.violation_active /\ bl'.violation_active) => BusUnanimous(bl', TRUE)
        /\ (bl.violation_active /\ ~bl'.violation_active) => BusUnanimous(bl', FALSE)
        /\ (~BusUnanimous(bl', TRUE) /\ ~BusUnanimous(bl', FALSE)) =>
             /\ bl'.violation_active = bl.violation_active
             /\ bl'.ranges = bl.ranges
        /\ \A k \in 1..Len(bl'.ranges) :
             LET r == bl'.ranges[k]
             IN  /\ r.end_time # <<>> => r.end_time[1] - r.start_time >= BUFFER_SIZE_FRAMES
                 /\ k > 1 => /\ bl'.ranges[k - 1].end_time # <<>>
                             /\ bl'.ranges[k - 1].end_time[1] < r.start_time ]_vars

\* a scan that has closed one window and opened a second
C26_Witness ==
  /\ ext = "bus_long" /\ Len(bl.ranges) = 2
  /\ bl.ranges[1].end_time # <<>> /\ bl.violation_active


\* a step of the scan of EnhancedProximityDetector that processes a sampled frame
ProxSampledStep ==
  /\ ext = "prox" /\ pc = "scan" /\ pc' = "scan" /\ px'.sampled = px.sampled + 1

\* the track with the given id as the scan holds it (a fresh one if not yet seen)
ProxTrack(p, id) == IF id \in DOMAIN p.tracks THEN p.tracks[id] ELSE track0

\* the danger state of a track
ProxDangerState(t) == <<t.is_dangerous, t.max_danger_score, t.peak>>

\* the danger criteria at the newest sample of a track: enough history, close,
\* centre in the middle 30-70 % of the width, approaching or critical, not lateral
ProxCriteria(t, width, f) ==
  LET n == Len(t.history)
      h == t.history[n]
  IN  /\ n >= MIN_TRACK_FRAMES
      /\ h.distance < DANGEROUS_DISTANCE_M * 1000
      /\ 3 * 2 * width < 10 * h.cx2 /\ 10 * h.cx2 < 7 * 2 * width
      /\ \/ IsApproaching(CalculateTTC(t.history, f))
         \/ h.distance < CRITICAL_DISTANCE_M * 1000
      /\ 10 * Abs(h.cx2 - t.history[n - RECENT + 1].cx2) <= 3 * 2 * width

\* C27: a sampled frame changes a track's danger state (is_dangerous,
\* max_danger_score, peak_time, peak_distance, ttc) only if the track then has at
\* least MIN_TRACK_FRAMES samples, is nearer than DANGEROUS_DISTANCE_M, has its
\* box centre in the middle 30-70 % of the frame width, has a TTC below
\* TTC_THRESHOLD_SEC or is nearer than CRITICAL_DISTANCE_M, and is not lateral;
\* a track with fewer than MIN_TRACK_FRAMES samples is never dangerous
C27_DangerGate ==
  [][ ProxSampledStep =>
        \A id \in DOMAIN px'.tracks :
          LET t == px'.tracks[id]
          IN  /\ ProxDangerState(t) # ProxDangerState(ProxTrack(px, id)) =>
                   /\ t.last_frame = px'.frame_idx
                   /\ ProxCriteria(t, px.width, fps)
              /\ Len(t.history) < MIN_TRACK_FRAMES =>
                   ProxDangerState(t) = ProxDangerState(track0) ]_vars

\* a track that became dangerous at its fifth sample
C27_Witness ==
  /\ ext = "prox" /\ pc = "scan"
  /\ \E id \in DOMAIN px.tracks :
       /\ px.tracks[id].is_dangerous
       /\ Len(px.tracks[id].history) = MIN_TRACK_FRAMES


RECURSIVE SumCx2(_)
SumCx2(history) ==
  IF history = <<>> THEN 0 ELSE history[1].cx2 + SumCx2(Tail(history))

\* left / center / right as the mean centre x is below 33 %, between 33 % and
\* 67 %, or above 67 % of the width
ProxLocation(history, width) ==
  LET n == Len(history)
  IN  IF 100 * SumCx2(history) < 33 * 2 * width * n THEN "left"
      ELSE IF 100 * SumCx2(history) > 67 * 2 * width * n THEN "right"
      ELSE "center"

\* C29: at the end of the stream EnhancedProximityDetector reports exactly one
\* event per dangerous track and none for any other, so event_count is the
\* number of dangerous tracks and the length of close_encounters; an event starts
\* and ends at the times of its track's first and last samples and its location
\* is left, center or right by the mean centre x of the track
C29_OnePerTrack ==
  [][ (ext \in ProxScans /\ pc = "scan" /\ pc' = "done") =>
        LET dangerous == SelectSeq(px.order, LAMBDA id : px.tracks[id].is_dangerous)
            events == out'[1].close_encounters
        IN  /\ Len(events) = Len(dangerous)
            /\ Len(dangerous) = Cardinality({id \in DOMAIN px.tracks : px.tracks[id].is_dangerous})
            /\ out'[1].event_count = Len(events)
            /\ \A k \in 1..Len(dangerous) :
                 LET history == px.tracks[dangerous[k]].history
                 IN  /\ events[k].start_time = Round2(history[1].time, fps)
                     /\ events[k].end_time = Round2(history[Len(history)].time, fps)
                     /\ events[k].where = ProxLocation(history, px.width) ]_vars

\* a scan with three tracks, of which the one on the left and the one on the
\* right are dangerous and reported
C29_Witness ==
  /\ ext = "prox_side" /\ pc = "done"
  /\ Cardinality(DOMAIN px.tracks) = 3
  /\ out[1].event_count = 2
  /\ out[1].close_encounters[1].where = "left"
  /\ out[1].close_encounters[2].where = "right"


\* times to collision to compare with, <<p, q>> for p / q seconds and <<>> for
\* infinity (not approaching)
TTCValues == {<<1, 4>>, <<1, 2>>, <<1, 1>>, <<2, 1>>, <<3, 1>>, <<7, 2>>, <<10, 1>>, <<>>}

\* a is no later than b
TTCLeq(a, b) == a = b \/ b = <<>> \/ (a # <<>> /\ a[1] * b[2] <= b[1] * a[2])

\* the detector scores a sample at the given distance with this TTC: it is
\* approaching or critically near
ProxScored(distance, ttc) == IsApproaching(ttc) \/ distance < CRITICAL_DISTANCE_M * 1000

\* C30: at the distance and box height of a track's peak sample, of two times to
\* collision that the detector scores the larger never gives the larger danger
\* score; a track that is not approaching (infinite TTC) counts as the largest
C30_InverseTTC ==
  ext = "prox" =>
    \A id \in DOMAIN px.tracks :
      LET t == px.tracks[id]
      IN  t.peak # <<>> =>
            LET pk == t.peak[1]
                h == CHOOSE s \in Range(t.history) : s.time = pk.peak_time
                T == {x \in TTCValues \cup {pk.ttc} : ProxScored(pk.peak_distance, x)}
            IN  \A a, b \in T :
                  TTCLeq(a, b) =>
                    DangerScore(pk.peak_distance, b, h.box_height, px.height)
                      <= DangerScore(pk.peak_distance, a, h.box_height, px.height)


----------------------------------------------------------------------------
\* C31: the average speed either method reports lies within [0, 150] km/h:
\* calculate_average_speed returns a mean sum / count with 0 <= sum <= 150 * count,
\* and detect_speed returns either speed 0 with confidence 0 or a speed within
\* [3, 150] km/h (speeds of the enhanced detector are in hundredths of a km/h).
C31_SpeedRange ==
  /\ (ext = "speed" /\ pc = "done") =>
       LET avg == out[1].avg_speed
       IN  /\ avg[2] > 0
           /\ MIN_SPEED * avg[2] <= avg[1]
           /\ avg[1] <= MAX_SPEED * avg[2]
  /\ (ext = "ego" /\ pc = "done") =>
       LET r == out[1]
       IN  \/ r.average_speed_kmh = 0 /\ r.confidence = 0
           \/ /\ 100 * EGO_MIN_KMH <= r.average_speed_kmh
              /\ r.average_speed_kmh <= 100 * EGO_MAX_KMH

\* a scan of calculate_average_speed that measured a sample above 150 km/h
\* beside a slower one and returned a mean above 0 and below 150
C31_Witness ==
  /\ ext = "speed" /\ pc = "done"
  /\ \E k \in 1..Len(sp.all_frame_speeds_kmph) : sp.all_frame_speeds_kmph[k] = MAX_SPEED
  /\ \E k \in 1..Len(sp.all_frame_speeds_kmph) : sp.all_frame_speeds_kmph[k] < MAX_SPEED
  /\ out[1].avg_speed[1] > 0
  /\ out[1].avg_speed[1] < MAX_SPEED * out[1].avg_speed[2]


----------------------------------------------------------------------------
\* C32: the samples a scan retains stay within a fixed window: in
\* run_close_encounters the per-band score lists and the sample-time list hold
\* at most the BASE_LEN entries of the baseline window, and in the proximity
\* detector each track's history holds at most the RECENT entries it reads.
C32_BoundedHistory ==
  /\ (ext \in CEScans /\ pc \in {"scan", "done"}) =>
       /\ Len(ce.times) <= BASE_LEN
       /\ \A b \in 1..3 : Len(ce.vals[b]) <= BASE_LEN /\ Len(ce.bases[b]) <= BASE_LEN
  /\ (ext \in ProxScans) =>
       \A id \in DOMAIN px.tracks : Len(px.tracks[id].history) <= RECENT


----------------------------------------------------------------------------
\* the frames among the last three held in which a detection of the colour lies
\* less than 30 pixels away in x and in y
TrafficSupport(d, detection, color) ==
  LET n == Len(d.recent_detections)
  IN  {k \in Max(1, n - 2)..n :
         \E j \in 1..Len(d.recent_detections[k][color]) :
           LET h == d.recent_detections[k][color][j]
           IN  Abs(detection[1] - h[1]) < 30 /\ Abs(detection[2] - h[2]) < 30}

\* every detection returned is one of the current frame, of the same colour
TrafficSubset ==
  \A color \in Colors :
    \A j \in 1..Len(out[1][color]) :
      \E i \in 1..Len(call.detections[color]) : out[1][color][j] = call.detections[color][i]

C33_WitnessFull ==
  /\ ext = "traffic_long" /\ call.calls > 10 /\ Len(call.recent_detections) = 10


----------------------------------------------------------------------------
\* the native indexes a call has read are strictly increasing
ReadsIncreasing(c) ==
  \A j \in 1..Len(c.reads) : \A k \in 1..Len(c.reads) : j < k => c.reads[j] < c.reads[k]

\* a step reads at most one frame and keeps what was read before it
ReadsOneMore ==
  \/ call'.reads = call.reads
  \/ /\ Len(call'.reads) = Len(call.reads) + 1
     /\ SubSeq(call'.reads, 1, Len(call.reads)) = call.reads

\* C34: every call of an extractor on a finite stream comes to its end; when
\* the stream ends the call returns its result and raises nothing; and the
\* frames it reads are read one at a time in strictly increasing index order,
\* none twice.
C34_ScanTerminates ==
  /\ <>(pc = "done")
  /\ [](call.exit = "end_of_stream" =>
          /\ pc = "done" /\ call.raised = "" /\ call.result # <<>>
          /\ call.cap = "released")
  /\ [](ReadsIncreasing(call))
  /\ [][ReadsOneMore]_vars

\* run_close_encounters read its first frame and three more, then met the end
\* of the stream and returned
C34_Witness ==
  /\ ext = "run_close_encounters" /\ pc = "done"
  /\ call.exit = "end_of_stream"
  /\ call.reads = <<0, 1, 2, 3>>


----------------------------------------------------------------------------
\* C35: the time recorded with a sample is that of the frame it was computed
\* from (times are kept as native frame indexes, the division by the native
\* rate being the same on both sides): whenever run_close_encounters or
\* run_turn_count records a sample, its time is the index of the frame just
\* read, and the recorded times are strictly increasing.
C35_SampleTimes ==
  [][ /\ (ext \in CEScans /\ pc = "scan" /\ pc' = "scan"
            /\ Len(ce'.times) = Len(ce.times) + 1) =>
           /\ ce'.times[Len(ce'.times)] = ce'.i
           /\ \A k \in 1..Len(ce.times) : ce.times[k] < ce'.times[Len(ce'.times)]
      /\ (ext \in TurnScans /\ pc = "scan" /\ pc' = "scan"
            /\ Len(tc'.times) = Len(tc.times) + 1) =>
           /\ tc'.times[Len(tc'.times)] = tc'.frame_idx
           /\ \A k \in 1..Len(tc.times) : tc.times[k] < tc'.times[Len(tc'.times)]
    ]_vars


----------------------------------------------------------------------------
\* C36: when the two single-video processes have both finished their analysis
\* and exited with 0, the merged file is a JSON document that holds the entries
\* of both videos and every entry it held before.
C36_NoLostEntry ==
  (ext = "single" /\ \A p \in Procs : batch.proc[p].exit = <<0>>) =>
    /\ batch.file.exists /\ batch.file.valid
    /\ \A p \in Procs : VideoOf(p) \in batch.file.data
    /\ batch.before \subseteq batch.file.data


----------------------------------------------------------------------------
\* C37: is_dangerous is sticky.  Over a sampled frame a track that was
\* dangerous stays dangerous, and a track whose newest sample meets the danger
\* criteria is dangerous whatever its later samples are; at the end of the
\* stream every dangerous track is reported, and its event runs from the time
\* of the first sample of its history to the time of the last.
C37_Sticky ==
  [][ (ext \in ProxScans /\ pc = "scan") =>
        /\ (pc' = "scan" /\ px'.sampled = px.sampled + 1) =>
             /\ \A id \in DOMAIN px.tracks :
                  px.tracks[id].is_dangerous =>
                    id \in DOMAIN px'.tracks /\ px'.tracks[id].is_dangerous
             /\ \A id \in DOMAIN px'.tracks :
                  LET t == px'.tracks[id]
                  IN  (t.last_frame = px'.frame_idx /\ ProxCriteria(t, px.width, fps))
                        => t.is_dangerous
        /\ pc' = "done" =>
             LET dangerous == SelectSeq(px.order, LAMBDA id : px.tracks[id].is_dangerous)
             IN  /\ Len(out'[1].close_encounters) = Len(dangerous)
                 /\ \A k \in 1..Len(dangerous) :
                      LET h == px.tracks[dangerous[k]].history
                          e == out'[1].close_encounters[k]
                      IN  /\ e.start_time = Round2(h[1].time, fps)
                          /\ e.end_time = Round2(h[Len(h)].time, fps) ]_vars

\* the end of a scan with a reported track whose newest sample no longer meets
\* the danger criteria and lies after its peak
C37_Witness ==
  /\ ext = "prox" /\ pc = "done"
  /\ Len(out[1].close_encounters) > 0
  /\ \E id \in DOMAIN px.tracks :
       LET t == px.tracks[id]
       IN  /\ t.is_dangerous
           /\ ~ProxCriteria(t, px.width, fps)
           /\ t.peak[1].peak_time < t.history[Len(t.history)].time
           /\ \E k \in 1..Len(out[1].close_encounters) :
                /\ out[1].close_encounters[k].end_time
                     = Round2(t.history[Len(t.history)].time, fps)
                /\ out[1].close_encounters[k].peak_time < out[1].close_encounters[k].end_time


----------------------------------------------------------------------------
\* a box the scan retains, of a car or a motorcycle, centred at or below the
\* horizon line (45 % of the height) of a frame no wider than 16:9
NearBox(det, width, height) ==
  /\ det.cls \in {"car", "motorcycle"}
  /\ 100 * (det.y2 - det.y1) >= 20 * height
  /\ 100 * (det.y1 + det.y2) >= 2 * 45 * height
  /\ 9 * width <= 16 * height

\* C38: a retained sample of a car or a motorcycle centred at or below the
\* horizon line, in a frame with width / height <= 16 / 9, has an estimated
\* distance below 8 m, and the sample makes its track dangerous exactly when the
\* track has at least 5 samples, the box is frontal and the movement is not
\* lateral, whatever the time to collision.
C38_AlwaysCritical ==
  [][ (ext \in ProxScans /\ pc = "scan" /\ pc' = "scan" /\ px'.sampled = px.sampled + 1) =>
        \A k \in 1..Len(px'.last) :
          LET det == px'.last[k]
          IN  NearBox(det, px.width, px.height) =>
                LET t == px'.tracks[det.id]
                    n == Len(t.history)
                    h == t.history[n]
                IN  /\ h.time = px'.frame_idx
                    /\ h.distance < 8 * 1000
                    /\ t.is_dangerous =
                         (\/ ProxTrack(px, det.id).is_dangerous
                          \/ /\ n >= 5
                             /\ 3 * 2 * px.width < 10 * h.cx2 /\ 10 * h.cx2 < 7 * 2 * px.width
                             /\ 10 * Abs(h.cx2 - t.history[n - 4].cx2) <= 3 * 2 * px.width) ]_vars

\* a 16:9 scan in which a car whose box is exactly 20 % of the frame high and
\* centred on the horizon line has become dangerous at 6.67 m without
\* approaching (its time to collision is infinite)
C38_Witness ==
  /\ ext = "prox_near" /\ pc = "scan"
  /\ 9 * px.width = 16 * px.height
  /\ 1 \in DOMAIN px.tracks
  /\ LET t == px.tracks[1]
         n == Len(t.history)
     IN  /\ n >= 5
         /\ t.is_dangerous
         /\ 100 * t.history[n].box_height = 20 * px.height
         /\ t.history[n].distance > 6 * 1000
         /\ CalculateTTC(t.history, fps) = <<>>
         /\ t.peak[1].ttc = <<>>


----------------------------------------------------------------------------
\* C39: whatever the frames show, run_traffic_signal_summary returns no
\* violations, no violation windows and violation = false; in analyze_video
\* the traffic_violations metric is then 0, safety_violation is at most 1 and
\* the compliance score is at least 70.
C39_NoTrafficViolation ==
  (ext = "traffic_summary" /\ pc \in {"summary", "scored"}) =>
    /\ out[1] = [violations |-> <<>>, traffic_violation_windows |-> <<>>, violation |-> FALSE]
    /\ pc = "scored" =>
         /\ out[2].metrics.traffic_violations = 0
         /\ out[2].safety_violation <= 1
         /\ out[2].scores.compliance_score >= 70

\* a video that shows a red light and has a bus-lane violation: one violation
\* type, compliance score 70
C39_Witness ==
  /\ ext = "traffic_summary" /\ pc = "scored"
  /\ \E k \in 1..Len(call.lights) : call.lights[k] = "red"
  /\ out[2].metrics.bus_lane_violations = 1
  /\ out[2].safety_violation = 1
  /\ out[2].scores.compliance_score = 70

=============================================================================
